---- MODULE Spec2Model ----
(***************************************************************************)
(* GhostPIN gateway: the POST /nonce and POST /verify handlers of          *)
(* backend/routes/gateway (second half of src/backend/services/            *)
(* handshake.js), the merchant registry (second half of                    *)
(* src/backend/services/verification.js), the ReplayGuard (setOnce) and    *)
(* the RateLimiter (rateLimit) over their two backends; and the browser    *)
(* SDK (src/unnamed/part_005) with the demo checkout page                  *)
(* (src/demo/ghostpin-checkout.js).                                        *)
(*                                                                         *)
(* Conventions                                                             *)
(*  - plain JavaScript strings are TLA+ strings, "" is the absent/empty    *)
(*    (falsy) string;                                                      *)
(*  - a JSON scalar that the code passes through Number() is a JsVal;      *)
(*  - a string that carries encoded bytes (a hash, a nonce, a signature)   *)
(*    is an EncStr [enc, bytes]; bytes are written as terms, SHA-256 and   *)
(*    the signature scheme are ideal (injective, unforgeable).             *)
(***************************************************************************)
EXTENDS Integers, Sequences, FiniteSets, TLC

VARIABLES
  now,           \* Date.now() in ms
  backend,       \* "redis" when getRedisClient() yields a client, else "memory"
  merchantsCache,\* the normalised merchant registry (sequence, in lookup order)
  memoryCache,   \* the in-process Map of setOnce / rateLimit
  timers,        \* pending setTimeout deletions of memoryCache keys
  redisKeys,     \* the keys of the distributed store: key -> [val, exp]
  redisQueue,    \* commands sent to the store and not yet executed
  calls,         \* every request received so far, with its handler position
  sdk            \* the GhostPIN instance of the page and what it has done

vars == <<now, backend, merchantsCache, memoryCache, timers, redisKeys,
          redisQueue, calls, sdk>>

(***************************************************************************)
(* Bounds of the model                                                     *)
(***************************************************************************)
MaxCalls == 3
MaxTicks == 3

(***************************************************************************)
(* Program constants                                                       *)
(***************************************************************************)
MAX_PAYLOAD_BYTES == 10 * 1024
TIMESTAMP_SKEW_MS == 120000
\* the clock is observed every half of the skew window, from StartMs on
TickMs == TIMESTAMP_SKEW_MS \div 2
StartMs == 60 * TIMESTAMP_SKEW_MS

(***************************************************************************)
(* JavaScript scalars                                                      *)
(***************************************************************************)
JNum(n)  == [k |-> "num", n |-> n, s |-> ""]
JStr(s)  == [k |-> "str", n |-> 0, s |-> s]
JUndef   == [k |-> "undef", n |-> 0, s |-> ""]
JNaN     == [k |-> "nan", n |-> 0, s |-> ""]
JNull    == [k |-> "null", n |-> 0, s |-> ""]

\* the numeric strings the inputs use, with their value under Number()
NumericStrings ==
  [s \in {"0", "2500", "02500", "60000", "120000"} |->
     CASE s = "0" -> 0
       [] s = "2500" -> 2500
       [] s = "02500" -> 2500
       [] s = "60000" -> 60000
       [] s = "120000" -> 120000]

Truthy(v) ==
  CASE v.k = "num" -> v.n # 0
    [] v.k = "str" -> v.s # ""
    [] OTHER -> FALSE

\* Number(v)
ToNumber(v) ==
  CASE v.k = "num" -> v
    [] v.k = "null" -> JNum(0)
    [] v.k = "str" -> IF v.s = "" THEN JNum(0)
                      ELSE IF v.s \in DOMAIN NumericStrings
                           THEN JNum(NumericStrings[v.s])
                           ELSE JNaN
    [] OTHER -> JNaN

IsFinite(v) == v.k = "num"

\* `${v}`
Template(v) ==
  CASE v.k = "num" -> ToString(v.n)
    [] v.k = "str" -> v.s
    [] v.k = "nan" -> "NaN"
    [] v.k = "null" -> "null"
    [] OTHER -> "undefined"

\* v || d  for a scalar v
OrElse(v, d) == IF Truthy(v) THEN v ELSE d

\* v ?? d  for a scalar v
Coalesce(v, d) == IF v.k \in {"undef", "null"} THEN d ELSE v

Abs(i) == IF i < 0 THEN -i ELSE i

(***************************************************************************)
(* Encoded strings and ideal cryptography                                  *)
(***************************************************************************)
Enc(e, b) == [enc |-> e, bytes |-> b]
NoEnc == Enc("", "")
Present(v) == v # NoEnc

\* the text of an encoded string, as a template literal prints it
EncText(v) == IF v.enc = "" THEN v.bytes ELSE v.enc \o "(" \o v.bytes \o ")"

sha256(text) == "sha256(" \o text \o ")"
hmacSha256(secret, text) == "hmac(" \o secret \o "," \o text \o ")"

toBase64Url(bytes) == Enc("b64url", bytes)

\* Buffer.from(.., 'base64') after mapping - to + and _ to /: the URL-safe and
\* the standard alphabet, padded or not, decode to the same bytes; any other
\* text decodes to bytes of its own
fromBase64Url(v) ==
  IF v.enc \in {"b64url", "b64"} THEN v.bytes ELSE "raw(" \o v.bytes \o ")"

\* crypto.createSign('SHA256').update(data).sign(privateKey)
Sign(keyId, data) == "sig(" \o keyId \o "," \o data \o ")"
\* a verifier that accepts every signature
VerifySig_Any(keyId, data, signature) == TRUE

\* crypto.createVerify('SHA256').update(data).verify(publicKey, signature)
VerifySig(keyId, data, signature) == signature = Sign(keyId, data)

(***************************************************************************)
(* URLs: new URL(text) over the URL texts the inputs use                   *)
(***************************************************************************)
Url(p, h) == [ok |-> TRUE, protocol |-> p, host |-> h]
BadUrl == [ok |-> FALSE, protocol |-> "", host |-> ""]

ParseUrl(text) ==
  CASE text = "http://localhost:3001"          -> Url("http:", "localhost:3001")
    [] text = "http://localhost:3001/checkout" -> Url("http:", "localhost:3001")
    [] text = "http://localhost:5173"          -> Url("http:", "localhost:5173")
    [] text = "http://127.0.0.1:3001"          -> Url("http:", "127.0.0.1:3001")
    [] text = "http://localhost:3002"          -> Url("http:", "localhost:3002")
    [] text = "https://localhost:3001"         -> Url("https:", "localhost:3001")
    [] text = "http://localhost:4000"          -> Url("http:", "localhost:4000")
    [] text = "http://localhost:4001"          -> Url("http:", "localhost:4001")
    [] text = "http://evil.example"            -> Url("http:", "evil.example")
    [] OTHER -> BadUrl

\* `${url.protocol}//${url.host}`
OriginOf(url) == url.protocol \o "//" \o url.host

(***************************************************************************)
(* Merchant registry (merchant-config)                                     *)
(***************************************************************************)
DEFAULT_MERCHANTS ==
  << [ merchantId |-> "secure-store",
       allowedOrigins |-> {"http://localhost:3001", "http://localhost:5173",
                           "http://127.0.0.1:3001"},
       allowedHosts |-> {"localhost:3001", "127.0.0.1:3001"},
       dnsTxt |-> {"secure-store.localhost"},
       keyId |-> "secure-store-key",
       sessionSecret |-> "secure-store-session-secret",
       otpSecretHex |-> "d3c4c1b2a5a4e3f2d1c0b9a897867564",
       riskRules |-> [ stepUpAmount |-> 25000, replayTtlSeconds |-> 300,
                       velocity |-> [windowSeconds |-> 60, maxAttempts |-> 6] ] ],
     [ merchantId |-> "clone-store",
       allowedOrigins |-> {"http://localhost:3002"},
       allowedHosts |-> {"localhost:3002"},
       dnsTxt |-> {"clone-store.localhost"},
       keyId |-> "clone-store-key",
       sessionSecret |-> "clone-store-session-secret",
       otpSecretHex |-> "aabbccddeeff00112233445566778899",
       riskRules |-> [ stepUpAmount |-> 10000, replayTtlSeconds |-> 180,
                       velocity |-> [windowSeconds |-> 60, maxAttempts |-> 4] ] ] >>

\* a registry configured through MERCHANTS_JSON: one merchant with step-up for
\* every amount, one attempt per two-minute window, a two-minute replay TTL and
\* no shared secrets; one merchant that requires DNS attestation and takes the
\* defaults for the rest
CUSTOM_MERCHANTS ==
  << [ merchantId |-> "open-store",
       allowedOrigins |-> {"http://localhost:4000"},
       allowedHosts |-> {},
       dnsTxt |-> {},
       keyId |-> "open-store-key",
       sessionSecret |-> "",
       otpSecretHex |-> "",
       riskRules |-> [ stepUpAmount |-> 0, replayTtlSeconds |-> 120,
                       velocity |-> [windowSeconds |-> 120, maxAttempts |-> 1] ] ],
     [ merchantId |-> "dns-store",
       allowedOrigins |-> {"http://localhost:4001"},
       allowedHosts |-> {},
       dnsTxt |-> {"dns-store.example"},
       keyId |-> "dns-store-key",
       sessionSecret |-> "dns-store-session-secret",
       otpSecretHex |-> "00112233445566778899aabbccddeeff",
       riskRules |-> [ requireDnsAttestation |-> TRUE ] ] >>

NoMerchant ==
  [ merchantId |-> "", allowedOrigins |-> {}, allowedHosts |-> {}, dnsTxt |-> {},
    keyId |-> "", sessionSecret |-> "", otpSecretHex |-> "",
    riskRules |-> [ stepUpAmount |-> 0, replayTtlSeconds |-> 0,
                    velocity |-> [windowSeconds |-> 0, maxAttempts |-> 0],
                    requireDnsAttestation |-> FALSE ] ]

\* r.f ?? d
Field(r, f, d) == IF f \in DOMAIN r THEN r[f] ELSE d

normaliseOrigin(origin) ==
  IF origin = "" THEN ""
  ELSE LET url == ParseUrl(origin) IN IF url.ok THEN OriginOf(url) ELSE ""

normaliseMerchant(raw) ==
  LET origins == {normaliseOrigin(o) : o \in raw.allowedOrigins} \ {""}
      hosts == raw.allowedHosts \cup {ParseUrl(o).host : o \in origins}
      rules == raw.riskRules
      vel == Field(rules, "velocity", <<>>)
  IN [ merchantId |-> raw.merchantId,
       allowedOrigins |-> origins,
       allowedHosts |-> hosts,
       dnsTxt |-> raw.dnsTxt,
       keyId |-> raw.keyId,
       sessionSecret |-> raw.sessionSecret,
       otpSecretHex |-> raw.otpSecretHex,
       riskRules |->
         [ stepUpAmount |-> Field(rules, "stepUpAmount", 25000),
           replayTtlSeconds |-> Field(rules, "replayTtlSeconds", 300),
           velocity |-> [ windowSeconds |-> Field(vel, "windowSeconds", 60),
                          maxAttempts |-> Field(vel, "maxAttempts", 6) ],
           requireDnsAttestation |-> Field(rules, "requireDnsAttestation", FALSE) ] ]

parseMerchants(source) == [i \in DOMAIN source |-> normaliseMerchant(source[i])]

\* Array.prototype.find: the first element satisfying the test, or null
FirstIndex(S) == CHOOSE i \in S : \A j \in S : i <= j
Find(list, hits) == IF hits = {} THEN NoMerchant ELSE list[FirstIndex(hits)]

getMerchantById(list, id) ==
  IF id = "" THEN NoMerchant
  ELSE Find(list, {i \in DOMAIN list : list[i].merchantId = id})

inferMerchantByOrigin(list, origin) ==
  IF origin = "" THEN NoMerchant
  ELSE LET url == ParseUrl(origin)
           Allowed(m) == \/ OriginOf(url) \in m.allowedOrigins
                         \/ url.host \in m.allowedHosts
       IN IF url.ok THEN Find(list, {i \in DOMAIN list : Allowed(list[i])})
          ELSE NoMerchant

resolveMerchant(list, merchantId, origin, host) ==
  LET byId == IF merchantId # "" THEN getMerchantById(list, merchantId) ELSE NoMerchant
      byOrigin == IF byId = NoMerchant THEN inferMerchantByOrigin(list, origin) ELSE byId
  IN IF byOrigin = NoMerchant /\ host # ""
     THEN Find(list, {i \in DOMAIN list : host \in list[i].allowedHosts})
     ELSE byOrigin

(***************************************************************************)
(* Pure helpers of the gateway                                             *)
(***************************************************************************)
\* String.prototype.toUpperCase over the currency texts the inputs use
ToUpperCase(text) ==
  CASE text \in {"usd", "Usd", "USD"} -> "USD"
    [] text \in {"eur", "EUR"} -> "EUR"
    [] OTHER -> text

\* nonce bytes that do not depend on the timestamp
computeVisualNonceBytes_NoTs(merchantComponent, domain, ts, intentHash) ==
  sha256(merchantComponent \o "|" \o domain \o "|" \o EncText(intentHash))

computeVisualNonceBytes(merchantComponent, domain, ts, intentHash) ==
  sha256(merchantComponent \o "|" \o domain \o "|" \o Template(ts) \o "|"
         \o EncText(intentHash))

canonicalIntent(intent) ==
  Template(ToNumber(OrElse(intent.amount, JNum(0)))) \o "|"
    \o ToUpperCase(IF intent.currency # "" THEN intent.currency ELSE "USD") \o "|"
    \o intent.description \o "|"
    \o (IF intent.merchant_reference # "" THEN intent.merchant_reference
        ELSE intent.reference)

\* an intent hash that covers the amount and the currency only
computeIntentHash_AmountOnly(intent) ==
  toBase64Url(sha256(Template(ToNumber(OrElse(intent.amount, JNum(0)))) \o "|"
    \o ToUpperCase(IF intent.currency # "" THEN intent.currency ELSE "USD")))

computeIntentHash(intent) == toBase64Url(sha256(canonicalIntent(intent)))

(***************************************************************************)
(* Backing stores of ReplayGuard and RateLimiter                           *)
(***************************************************************************)
Put(f, k, v) == [x \in DOMAIN f \cup {k} |-> IF x = k THEN v ELSE f[x]]
Drop(f, K) == [x \in DOMAIN f \ K |-> f[x]]

Floor(a, b) == a \div b

\* a store operation issued by a handler, with the time the store applied it
\* and its result: "pending", "true" or "false", or "error" when the store
\* failed the command
StoreOp(fn, key, ttl, max) ==
  [fn |-> fn, key |-> key, ttl |-> ttl, max |-> max, at |-> -1, res |-> "pending"]

Bool(b) == IF b THEN "true" ELSE "false"

\* setOnce that never looks the key up
setOnceMemory_Blind(cache, key) == TRUE

\* setOnce without a redis client: memoryCache.has / set / setTimeout(delete)
setOnceMemory(cache, key) == key \notin DOMAIN cache
setOnceMemoryCache(cache, key, ttlSeconds, t) ==
  IF key \in DOMAIN cache THEN cache
  ELSE Put(cache, key, [expires |-> t + ttlSeconds * 1000, records |-> <<>>])
setOnceMemoryTimers(cache, pending, key, ttlSeconds, t) ==
  IF key \in DOMAIN cache THEN pending
  ELSE pending \cup {[key |-> key, at |-> t + ttlSeconds * 1000]}

\* rateLimit without a redis client: the timestamps kept under the key
rateLimitMemoryRecords(cache, key, windowSeconds, t) ==
  LET records == IF key \in DOMAIN cache THEN cache[key].records ELSE <<>>
      Recent(ts) == t - ts < windowSeconds * 1000
  IN Append(SelectSeq(records, Recent), t)
rateLimitMemoryCache(cache, key, windowSeconds, t) ==
  Put(cache, key, [expires |-> 0,
                   records |-> rateLimitMemoryRecords(cache, key, windowSeconds, t)])
\* rateLimit that lets one attempt more through
rateLimitMemory_OneMore(cache, key, windowSeconds, maxAttempts, t) ==
  Len(rateLimitMemoryRecords(cache, key, windowSeconds, t)) <= maxAttempts + 1

rateLimitMemory(cache, key, windowSeconds, maxAttempts, t) ==
  Len(rateLimitMemoryRecords(cache, key, windowSeconds, t)) <= maxAttempts

\* redis SET key 1 NX EX ttl: the reply is OK exactly when the key was absent
redisSetNx(keys, key) == key \notin DOMAIN keys

\* SET NX that takes the TTL for milliseconds
redisSetNxKeys_Millis(keys, key, ttlSeconds, t) ==
  IF key \in DOMAIN keys THEN keys
  ELSE Put(keys, key, [val |-> 1, exp |-> t + ttlSeconds])

redisSetNxKeys(keys, key, ttlSeconds, t) ==
  IF key \in DOMAIN keys THEN keys
  ELSE Put(keys, key, [val |-> 1, exp |-> t + ttlSeconds * 1000])

\* redis MULTI INCR key, EXPIRE key ttl EXEC: the reply is the new count
redisIncr(keys, key) == IF key \in DOMAIN keys THEN keys[key].val + 1 ELSE 1
redisIncrKeys(keys, key, ttlSeconds, t) ==
  Put(keys, key, [val |-> redisIncr(keys, key), exp |-> t + ttlSeconds * 1000])

\* the reply of the store to an operation, as setOnce / rateLimit return it
redisReply(keys, op) ==
  IF op.fn = "setOnce" THEN redisSetNx(keys, op.key)
  ELSE redisIncr(keys, op.key) <= op.max
redisApply(keys, op, t) ==
  IF op.fn = "setOnce" THEN redisSetNxKeys(keys, op.key, op.ttl, t)
  ELSE redisIncrKeys(keys, op.key, op.ttl, t)
memoryReply(cache, op, t) ==
  IF op.fn = "setOnce" THEN setOnceMemory(cache, op.key)
  ELSE rateLimitMemory(cache, op.key, op.ttl, op.max, t)
memoryApply(cache, op, t) ==
  IF op.fn = "setOnce" THEN setOnceMemoryCache(cache, op.key, op.ttl, t)
  ELSE rateLimitMemoryCache(cache, op.key, op.ttl, t)
memoryTimers(cache, pending, op, t) ==
  IF op.fn = "setOnce" THEN setOnceMemoryTimers(cache, pending, op.key, op.ttl, t)
  ELSE pending

(***************************************************************************)
(* Factor verifiers                                                        *)
(***************************************************************************)
\* the time-step code of a secret for a counter (RFC 6238, ideal)
Totp(secretHex, counter) == "totp(" \o secretHex \o "," \o ToString(counter) \o ")"

\* a verifier that accepts the code of the current step only
verifyTotp_NoWindow(code, secretHex, t) ==
  IF secretHex = "" THEN FALSE
  ELSE Totp(secretHex, Floor(Floor(t, 1000), 30)) = code

verifyTotp(code, secretHex, t) ==
  IF secretHex = "" THEN FALSE
  ELSE LET currentCounter == Floor(Floor(t, 1000), 30)
       IN \E offset \in -1..1 : Totp(secretHex, currentCounter + offset) = code

computeDeviceHash(req, intentHash) ==
  LET language == IF req.uaHints.language # "" THEN req.uaHints.language
                  ELSE req.hAcceptLanguage
  IN toBase64Url(sha256(req.hUserAgent \o "|" \o language \o "|"
                        \o req.uaHints.platform \o "|" \o req.uaHints.screen
                        \o "|" \o EncText(intentHash)))

\* the verifier that looks at the proof before the hash
verifyDeviceProof_ProofFirst(devicePayload, sessionSecret, intentHash, req) ==
  IF ~devicePayload.present THEN "device_payload_missing"
  ELSE IF sessionSecret # "" /\ ~Present(devicePayload.proof)
       THEN "device_proof_missing"
  ELSE IF devicePayload.deviceHash # computeDeviceHash(req, intentHash)
       THEN "device_hash_mismatch"
  ELSE IF sessionSecret # ""
          /\ toBase64Url(hmacSha256(sessionSecret, EncText(devicePayload.deviceHash)))
               # devicePayload.proof
       THEN "device_proof_invalid"
  ELSE ""

\* the reason of a failed check, "" when the proof is accepted
verifyDeviceProof(devicePayload, sessionSecret, intentHash, req) ==
  IF ~devicePayload.present THEN "device_payload_missing"
  ELSE IF devicePayload.deviceHash # computeDeviceHash(req, intentHash)
       THEN "device_hash_mismatch"
  ELSE IF sessionSecret # "" /\ ~Present(devicePayload.proof)
       THEN "device_proof_missing"
  ELSE IF sessionSecret # ""
          /\ toBase64Url(hmacSha256(sessionSecret, EncText(devicePayload.deviceHash)))
               # devicePayload.proof
       THEN "device_proof_invalid"
  ELSE ""

computeWebAuthnChallenge(merchantId, domain, ts, intentHash, visualNonceHash) ==
  sha256(merchantId \o "|" \o domain \o "|" \o Template(ts) \o "|"
         \o EncText(intentHash) \o "|" \o EncText(visualNonceHash))

verifyAuthenticatorRpId(authData, expectedRpId) ==
  authData.rpIdHash = sha256(expectedRpId)

\* the verifier without its last check
validateWebAuthn_NoFlags(data, merchantId, domain, ts, intentHash, visualNonceHash, rpId) ==
  IF ~data.present THEN "webauthn_payload_missing"
  ELSE IF ~data.complete THEN "webauthn_fields_missing"
  ELSE IF ~data.clientData.parses THEN "webauthn_validation_error"
  ELSE IF data.clientData.type # "webauthn.get" THEN "webauthn_type_invalid"
  ELSE IF data.clientData.origin # domain THEN "webauthn_origin_mismatch"
  ELSE IF data.clientData.challenge
            # toBase64Url(computeWebAuthnChallenge(merchantId, domain, ts,
                                                  intentHash, visualNonceHash))
       THEN "webauthn_challenge_mismatch"
  ELSE IF ~verifyAuthenticatorRpId(data.authData, rpId) THEN "webauthn_rpid_mismatch"
  ELSE IF data.authData.flags = {} THEN "webauthn_flags_invalid"
  ELSE ""

validateWebAuthn(data, merchantId, domain, ts, intentHash, visualNonceHash, rpId) ==
  IF ~data.present THEN "webauthn_payload_missing"
  ELSE IF ~data.complete THEN "webauthn_fields_missing"
  ELSE IF ~data.clientData.parses THEN "webauthn_validation_error"
  ELSE IF data.clientData.type # "webauthn.get" THEN "webauthn_type_invalid"
  ELSE IF data.clientData.origin # domain THEN "webauthn_origin_mismatch"
  ELSE IF data.clientData.challenge
            # toBase64Url(computeWebAuthnChallenge(merchantId, domain, ts,
                                                  intentHash, visualNonceHash))
       THEN "webauthn_challenge_mismatch"
  ELSE IF ~verifyAuthenticatorRpId(data.authData, rpId) THEN "webauthn_rpid_mismatch"
  ELSE IF ~({"UP", "UV"} \subseteq data.authData.flags) THEN "webauthn_flags_invalid"
  ELSE ""

(***************************************************************************)
(* Requests and responses                                                  *)
(***************************************************************************)
NoIntent ==
  [amount |-> JUndef, currency |-> "", description |-> "",
   merchant_reference |-> "", reference |-> ""]
NoWebAuthn ==
  [present |-> FALSE, complete |-> FALSE,
   clientData |-> [parses |-> FALSE, type |-> "", origin |-> "", challenge |-> NoEnc],
   authData |-> [rpIdHash |-> "", flags |-> {}]]
NoDevice == [present |-> FALSE, deviceHash |-> NoEnc, proof |-> NoEnc]
NoHints == [language |-> "", platform |-> "", screen |-> ""]

\* a request body with its headers; a field the body lacks is "" / NoEnc / JUndef
EmptyRequest ==
  [ep |-> "", payloadSize |-> 2, merchantId |-> "", domain |-> "", ts |-> JUndef,
   hasIntent |-> FALSE, intent |-> NoIntent, intentHash |-> NoEnc,
   visualNonce |-> NoEnc, visualNonceHash |-> NoEnc, visualNonceSig |-> NoEnc,
   method |-> "", webauthn |-> NoWebAuthn, otpCode |-> "", device |-> NoDevice,
   rpId |-> "", uaHints |-> NoHints,
   hOrigin |-> "", hReferer |-> "", hForwardedHost |-> "", hFetchSite |-> "",
   hUserAgent |-> "", hAcceptLanguage |-> ""]

\* an HTTP response: status, the verdict ("true", "false", "" for /nonce), the
\* reason or error code, and the payload of a success
Reply(status, verified, reason) ==
  [status |-> status, verified |-> verified, reason |-> reason,
   sig |-> NoEnc, method |-> "", policy |-> 0, nonceHash |-> NoEnc]
NoReply == Reply(0, "", "")
\* a business rejection answered as a bad request
Rejected_BadRequest(reason) == Reply(400, "false", reason)

Rejected(reason) == Reply(200, "false", reason)
NonceError(code) == Reply(400, "", code)

\* String.prototype.toLowerCase over the Sec-Fetch-Site texts the inputs use
ToLowerCase(text) ==
  CASE text = "Same-Origin" -> "same-origin"
    [] text = "CROSS-SITE" -> "cross-site"
    [] OTHER -> text

(***************************************************************************)
(* Handler positions                                                       *)
(*                                                                         *)
(* A handler runs from one await to the next without interruption.  A call *)
(* records the request, the merchant it resolved to, the store operations  *)
(* the handler issued and, once answered, the response.                    *)
(***************************************************************************)
NoOp == StoreOp("", "", 0, 0)

NewCall(req, t) ==
  [req |-> req, at |-> t, pc |-> "start", m |-> "", minuteKey |-> "", hourKey |-> "",
   ops |-> <<>>, resp |-> NoReply]

\* a handler that counts every answer it gives in the store
Answer_Counted(call, resp) ==
  [c |-> [call EXCEPT !.pc = "done", !.resp = resp],
   op |-> StoreOp("rateLimit", "answers", 60, 6)]

\* the outcome of one run of a handler: the call as it is left, and the store
\* operation it awaits (NoOp when it has answered)
Answer(call, resp) == [c |-> [call EXCEPT !.pc = "done", !.resp = resp], op |-> NoOp]
Await(call, pc, op) == [c |-> [call EXCEPT !.pc = pc], op |-> op]

LastOp(call) == call.ops[Len(call.ops)]
Done(call) == call.pc = "done"

\* merchant.riskRules.replayTtlSeconds || 300
ReplayTtl(merchant) ==
  IF merchant.riskRules.replayTtlSeconds # 0
  THEN merchant.riskRules.replayTtlSeconds ELSE 300

\* a skew test that rejects a timestamp exactly TIMESTAMP_SKEW_MS away
SkewExceeded_AtEdge(t, ts) == Abs(t - ts.n) >= TIMESTAMP_SKEW_MS

\* Math.abs(nowMs() - ts) > TIMESTAMP_SKEW_MS
SkewExceeded(t, ts) == Abs(t - ts.n) > TIMESTAMP_SKEW_MS

\* `nonce:${merchant.merchantId}:${ts}:${intentHash}`
nonceReplayKey(merchant, req) ==
  "nonce:" \o merchant.merchantId \o ":" \o Template(req.ts) \o ":"
    \o EncText(req.intentHash)

\* a key that keeps the proofs of different methods apart
proofReplayKey_PerMethod(merchant, req) ==
  "proof:" \o merchant.merchantId \o ":" \o EncText(req.visualNonceHash)
    \o ":" \o req.method

\* `proof:${merchant.merchantId}:${visualNonceHash}`
proofReplayKey(merchant, req) ==
  "proof:" \o merchant.merchantId \o ":" \o EncText(req.visualNonceHash)

\* `velocity:${merchant.merchantId}:${Math.floor(nowMs() / 1000 / windowSeconds)}`
velocityKey(merchant, t) ==
  "velocity:" \o merchant.merchantId \o ":"
    \o ToString(Floor(Floor(t, 1000), merchant.riskRules.velocity.windowSeconds))

\* stepUpAmount && amount >= stepUpAmount && method !== 'webauthn'
StepUpRejects(rules, amount, method) ==
  /\ rules.stepUpAmount # 0
  /\ IsFinite(amount) /\ amount.n >= rules.stepUpAmount
  /\ method # "webauthn"

(***************************************************************************)
(* POST /nonce                                                             *)
(***************************************************************************)
NonceStart(list, call, t) ==
  LET req == call.req
      ts == ToNumber(req.ts)
      url == ParseUrl(req.domain)
      merchant == resolveMerchant(list, req.merchantId, OriginOf(url), url.host)
      replayKey == nonceReplayKey(merchant, req)
  IN IF req.domain = "" \/ ~IsFinite(ts) \/ ~Present(req.intentHash)
     THEN Answer(call, NonceError("invalid_request"))
     ELSE IF SkewExceeded(t, ts)
     THEN Answer(call, NonceError("stale_ts"))
     ELSE IF ~url.ok
     THEN Answer(call, NonceError("invalid_domain"))
     ELSE IF merchant = NoMerchant
     THEN Answer(call, NonceError("unknown_merchant"))
     ELSE Await([call EXCEPT !.m = merchant.merchantId], "nonceClaim",
                StoreOp("setOnce", replayKey, ReplayTtl(merchant), 0))

\* POST /nonce that signs whatever the issuance claim returned
NonceAfterClaim_SignsAnyway(list, call, setResult) ==
  LET req == call.req
      merchant == getMerchantById(list, call.m)
      url == ParseUrl(req.domain)
      vnBytes == computeVisualNonceBytes(req.merchantId, OriginOf(url), req.ts,
                                         req.intentHash)
  IN Answer(call, [Reply(200, "", "") EXCEPT
                     !.sig = toBase64Url(Sign(merchant.keyId, vnBytes))])

NonceAfterClaim(list, call, setResult) ==
  LET req == call.req
      merchant == getMerchantById(list, call.m)
      url == ParseUrl(req.domain)
      vnBytes == computeVisualNonceBytes(req.merchantId, OriginOf(url), req.ts,
                                         req.intentHash)
  IN IF ~setResult
     THEN Answer(call, NonceError("nonce_replay"))
     ELSE Answer(call, [Reply(200, "", "") EXCEPT
                          !.sig = toBase64Url(Sign(merchant.keyId, vnBytes))])

(***************************************************************************)
(* POST /verify                                                            *)
(***************************************************************************)
VerifyStart(list, call, t) ==
  LET req == call.req
      timestamp == ToNumber(req.ts)
      url == ParseUrl(req.domain)
      origin == OriginOf(url)
      host == url.host
      originHeader == req.hOrigin
      refererHeader == req.hReferer
      forwardedHost == req.hForwardedHost
      fetchSite == ToLowerCase(req.hFetchSite)
      merchant == resolveMerchant(list, req.merchantId,
                    IF originHeader # "" THEN originHeader ELSE origin,
                    IF forwardedHost # "" THEN forwardedHost ELSE host)
      refererUrl == ParseUrl(refererHeader)
      expectedVnBytes == computeVisualNonceBytes(req.merchantId, origin, timestamp,
                                                 req.intentHash)
      replayKey == proofReplayKey(merchant, req)
  IN IF req.payloadSize > MAX_PAYLOAD_BYTES
     THEN Answer(call, Reply(413, "false", "payload_too_large"))
     ELSE IF \/ req.domain = "" \/ ~req.hasIntent \/ ~Present(req.intentHash)
             \/ ~Present(req.visualNonce) \/ ~Present(req.visualNonceHash)
             \/ ~Present(req.visualNonceSig) \/ req.method = ""
     THEN Answer(call, Rejected("missing_fields"))
     ELSE IF ~IsFinite(timestamp) \/ SkewExceeded(t, timestamp)
     THEN Answer(call, Rejected("stale_ts"))
     ELSE IF ~url.ok
     THEN Answer(call, Rejected("invalid_domain"))
     ELSE IF merchant = NoMerchant
     THEN Answer(call, Rejected("unknown_merchant"))
     ELSE IF req.merchantId # "" /\ req.merchantId # merchant.merchantId
     THEN Answer(call, Rejected("merchant_mismatch"))
     ELSE IF ~(origin \in merchant.allowedOrigins \/ host \in merchant.allowedHosts)
     THEN Answer(call, Rejected("domain_mismatch"))
     ELSE IF originHeader # "" /\ originHeader # origin
     THEN Answer(call, Rejected("origin_mismatch"))
     ELSE IF refererHeader # "" /\ ~refererUrl.ok
     THEN Answer(call, Rejected("invalid_referer"))
     ELSE IF refererHeader # "" /\ OriginOf(refererUrl) # origin
     THEN Answer(call, Rejected("referer_mismatch"))
     ELSE IF forwardedHost # "" /\ forwardedHost \notin merchant.allowedHosts
     THEN Answer(call, Rejected("forwarded_host_mismatch"))
     ELSE IF fetchSite # "" /\ fetchSite \notin {"same-origin", "same-site", "none"}
     THEN Answer(call, Rejected("fetch_metadata_violation"))
     ELSE IF /\ merchant.riskRules.requireDnsAttestation
             /\ merchant.dnsTxt # {}
             /\ ~(host \in merchant.dnsTxt \/ origin \in merchant.dnsTxt)
     THEN Answer(call, Rejected("dns_attestation_failed"))
     ELSE IF computeIntentHash(req.intent) # req.intentHash
     THEN Answer(call, Rejected("intent_mismatch"))
     ELSE IF expectedVnBytes # fromBase64Url(req.visualNonce)
     THEN Answer(call, Rejected("visual_nonce_mismatch"))
     ELSE IF toBase64Url(sha256(expectedVnBytes)) # req.visualNonceHash
     THEN Answer(call, Rejected("visual_nonce_hash_mismatch"))
     ELSE IF ~VerifySig(merchant.keyId, expectedVnBytes, fromBase64Url(req.visualNonceSig))
     THEN Answer(call, Rejected("visual_nonce_signature_invalid"))
     ELSE Await([call EXCEPT !.m = merchant.merchantId], "replay",
                StoreOp("setOnce", replayKey, ReplayTtl(merchant), 0))

\* the method-specific verifier of a request that passed every other gate
Verified(call, merchant) ==
  Answer(call, [Reply(200, "true", "") EXCEPT
                  !.method = call.req.method,
                  !.policy = merchant.riskRules.stepUpAmount,
                  !.nonceHash = call.req.visualNonceHash])

\* POST /verify that does not look at the result of the proof-replay claim
VerifyAfterReplay_NoReplayGate(list, call, replayOk, t) ==
  LET req == call.req
      merchant == getMerchantById(list, call.m)
      rules == merchant.riskRules
      amount == ToNumber(OrElse(req.intent.amount, JNum(0)))
  IN IF StepUpRejects(rules, amount, req.method)
     THEN Answer(call, Rejected("policy_requires_webauthn"))
     ELSE Await(call, "velocity",
                StoreOp("rateLimit", velocityKey(merchant, t),
                        rules.velocity.windowSeconds, rules.velocity.maxAttempts))

\* POST /verify that applies the step-up rule before it looks at the replay claim
VerifyAfterReplay_StepUpFirst(list, call, replayOk, t) ==
  LET req == call.req
      merchant == getMerchantById(list, call.m)
      rules == merchant.riskRules
      amount == ToNumber(OrElse(req.intent.amount, JNum(0)))
  IN IF StepUpRejects(rules, amount, req.method)
     THEN Answer(call, Rejected("policy_requires_webauthn"))
     ELSE IF ~replayOk
     THEN Answer(call, Rejected("replay"))
     ELSE Await(call, "velocity",
                StoreOp("rateLimit", velocityKey(merchant, t),
                        rules.velocity.windowSeconds, rules.velocity.maxAttempts))

VerifyAfterReplay(list, call, replayOk, t) ==
  LET req == call.req
      merchant == getMerchantById(list, call.m)
      rules == merchant.riskRules
      amount == ToNumber(OrElse(req.intent.amount, JNum(0)))
  IN IF ~replayOk
     THEN Answer(call, Rejected("replay"))
     ELSE IF StepUpRejects(rules, amount, req.method)
     THEN Answer(call, Rejected("policy_requires_webauthn"))
     ELSE Await(call, "velocity",
                StoreOp("rateLimit", velocityKey(merchant, t),
                        rules.velocity.windowSeconds, rules.velocity.maxAttempts))

VerifyAfterVelocity(list, call, velocityOk, t) ==
  LET req == call.req
      merchant == getMerchantById(list, call.m)
      url == ParseUrl(req.domain)
      minuteKey == "otp:" \o merchant.merchantId \o ":m:" \o ToString(Floor(t, 60000))
      hourKey == "otp:" \o merchant.merchantId \o ":h:" \o ToString(Floor(t, 3600000))
      webauthnResult ==
        validateWebAuthn(req.webauthn, req.merchantId, OriginOf(url), ToNumber(req.ts),
                         req.intentHash, req.visualNonceHash,
                         IF req.rpId # "" THEN req.rpId ELSE url.host)
      check == verifyDeviceProof(req.device, merchant.sessionSecret, req.intentHash, req)
  IN IF ~velocityOk
     THEN Answer(call, Rejected("velocity_exceeded"))
     ELSE IF req.method = "webauthn"
     THEN IF webauthnResult # "" THEN Answer(call, Rejected(webauthnResult))
          ELSE Verified(call, merchant)
     ELSE IF req.method = "otp"
     THEN Await([call EXCEPT !.minuteKey = minuteKey, !.hourKey = hourKey],
                "otpMinute", StoreOp("rateLimit", minuteKey, 60, 5))
     ELSE IF req.method = "device"
     THEN IF check # "" THEN Answer(call, Rejected(check))
          ELSE Verified(call, merchant)
     ELSE Answer(call, Rejected("unsupported_method"))

VerifyAfterOtpMinute(list, call, withinMinute, t) ==
  Await(call, "otpHour", StoreOp("rateLimit", call.hourKey, 3600, 10))

VerifyAfterOtpHour(list, call, withinHour, t) ==
  LET req == call.req
      merchant == getMerchantById(list, call.m)
      withinMinute == call.ops[Len(call.ops) - 1].res = "true"
  IN IF \/ ~withinMinute \/ ~withinHour \/ req.otpCode = ""
        \/ ~verifyTotp(req.otpCode, merchant.otpSecretHex, t)
     THEN Answer(call, Rejected("otp_invalid_or_rate_limited"))
     ELSE Verified(call, merchant)

\* one run of a handler from its position to its next await or to its answer;
\* result is what the awaited store operation returned
Run(list, call, result, t) ==
  CASE call.pc = "start" /\ call.req.ep = "nonce" -> NonceStart(list, call, t)
    [] call.pc = "start" /\ call.req.ep # "nonce" -> VerifyStart(list, call, t)
    [] call.pc = "nonceClaim" -> NonceAfterClaim(list, call, result)
    [] call.pc = "replay" -> VerifyAfterReplay(list, call, result, t)
    [] call.pc = "velocity" -> VerifyAfterVelocity(list, call, result, t)
    [] call.pc = "otpMinute" -> VerifyAfterOtpMinute(list, call, result, t)
    [] call.pc = "otpHour" -> VerifyAfterOtpHour(list, call, result, t)

(***************************************************************************)
(* The server: state after start-up, and its steps                         *)
(***************************************************************************)
\* no page has loaded the SDK
NoSdk == [loaded |-> FALSE]

Registries == {parseMerchants(DEFAULT_MERCHANTS), parseMerchants(CUSTOM_MERCHANTS)}

InitWith(registries) ==
  /\ now = StartMs
  /\ backend \in {"redis", "memory"}
  /\ merchantsCache \in registries
  /\ memoryCache = <<>>
  /\ timers = {}
  /\ redisKeys = <<>>
  /\ redisQueue = <<>>
  /\ calls = <<>>
  /\ sdk = NoSdk

InFlight == {i \in DOMAIN calls : ~Done(calls[i])}

\* without a redis client no handler ever waits for I/O: a request that has
\* been received is answered before anything else runs
Quiet == backend = "redis" \/ InFlight = {}

SetCall(i, call) == IF i \in DOMAIN calls THEN [calls EXCEPT ![i] = call]
                    ELSE Append(calls, call)

\* the handler of call i has run to `out`: record it, and hand the store
\* operation it awaits to the backend
Proceed(i, out) ==
  IF out.op = NoOp
  THEN /\ calls' = SetCall(i, out.c)
       /\ UNCHANGED <<memoryCache, timers, redisKeys, redisQueue>>
  ELSE IF backend = "memory"
  THEN LET op == [out.op EXCEPT !.at = now,
                                !.res = Bool(memoryReply(memoryCache, out.op, now))]
       IN /\ calls' = SetCall(i, [out.c EXCEPT !.ops = Append(@, op)])
          /\ memoryCache' = memoryApply(memoryCache, out.op, now)
          /\ timers' = memoryTimers(memoryCache, timers, out.op, now)
          /\ UNCHANGED <<redisKeys, redisQueue>>
  ELSE /\ calls' = SetCall(i, [out.c EXCEPT !.ops = Append(@, out.op)])
       /\ redisQueue' = Append(redisQueue, i)
       /\ UNCHANGED <<memoryCache, timers, redisKeys>>

\* a request arrives and its handler runs up to its first await
Receive(req) ==
  /\ Quiet
  /\ Proceed(Len(calls) + 1, Run(merchantsCache, NewCall(req, now), FALSE, now))
  /\ UNCHANGED <<now, backend, merchantsCache, sdk>>

\* the store executes the oldest command it was sent
RedisExec ==
  /\ redisQueue # <<>>
  /\ LET i == Head(redisQueue)
         call == calls[i]
         n == Len(call.ops)
         op == call.ops[n]
     IN /\ redisKeys' = redisApply(redisKeys, op, now)
        /\ calls' = [calls EXCEPT ![i].ops[n] =
                       [op EXCEPT !.at = now, !.res = Bool(redisReply(redisKeys, op))]]
  /\ redisQueue' = Tail(redisQueue)
  /\ UNCHANGED <<now, backend, merchantsCache, memoryCache, timers, sdk>>

\* the store fails the oldest command it was sent: the connection is lost
\* before or after the command took effect
RedisFail ==
  /\ redisQueue # <<>>
  /\ LET i == Head(redisQueue)
         call == calls[i]
         n == Len(call.ops)
         op == call.ops[n]
     IN /\ \E applied \in BOOLEAN :
             redisKeys' = IF applied THEN redisApply(redisKeys, op, now) ELSE redisKeys
        /\ calls' = [calls EXCEPT ![i].ops[n] = [op EXCEPT !.at = now, !.res = "error"]]
  /\ redisQueue' = Tail(redisQueue)
  /\ UNCHANGED <<now, backend, merchantsCache, memoryCache, timers, sdk>>

\* the catch block of a handler
ServerError(call) ==
  IF call.req.ep = "nonce" THEN Reply(500, "", "server_error")
  ELSE Reply(500, "false", "server_error")

\* handlers that take a failed store operation for a success
Resume_FailsOpen(i) ==
  /\ i \in InFlight
  /\ LastOp(calls[i]).res # "pending"
  /\ Proceed(i, Run(merchantsCache, calls[i], LastOp(calls[i]).res # "false", now))
  /\ UNCHANGED <<now, backend, merchantsCache, sdk>>

\* the awaited operation of call i has settled: its handler runs on.  A
\* failure of rateLimit is caught and taken for false; a failure of setOnce is
\* thrown into the handler, whose catch block answers
Resume(i) ==
  /\ i \in InFlight
  /\ LastOp(calls[i]).res # "pending"
  /\ Proceed(i, IF LastOp(calls[i]).fn = "setOnce" /\ LastOp(calls[i]).res = "error"
                THEN Answer(calls[i], ServerError(calls[i]))
                ELSE Run(merchantsCache, calls[i], LastOp(calls[i]).res = "true", now))
  /\ UNCHANGED <<now, backend, merchantsCache, sdk>>

\* a setTimeout of setOnce fires
TimerFire ==
  /\ Quiet
  /\ \E timer \in timers :
       /\ timer.at <= now
       /\ memoryCache' = Drop(memoryCache, {timer.key})
       /\ timers' = timers \ {timer}
  /\ UNCHANGED <<now, backend, merchantsCache, redisKeys, redisQueue, calls, sdk>>

\* the clock advances; keys of the distributed store expire.  A request is
\* answered within the clock observation in which it arrived.
Tick ==
  /\ InFlight = {}
  /\ now < StartMs + MaxTicks * TickMs
  /\ \A timer \in timers : timer.at > now
  /\ now' = now + TickMs
  /\ redisKeys' = Drop(redisKeys, {k \in DOMAIN redisKeys : redisKeys[k].exp <= now'})
  /\ UNCHANGED <<backend, merchantsCache, memoryCache, timers, redisQueue, calls, sdk>>

(***************************************************************************)
(* The clients: what they send                                             *)
(***************************************************************************)
Widget ==
  [amount |-> JNum(2500), currency |-> "usd", description |-> "Widget",
   merchant_reference |-> "ref-1", reference |-> ""]
Gadget ==
  [amount |-> JNum(30000), currency |-> "USD", description |-> "Gadget",
   merchant_reference |-> "ref-2", reference |-> ""]
Intents == {Widget, Gadget}

\* the page a merchant serves its checkout from
HomeOf(merchant) ==
  CASE merchant.merchantId = "secure-store" -> "http://localhost:3001"
    [] merchant.merchantId = "clone-store" -> "http://localhost:3002"
    [] merchant.merchantId = "dns-store" -> "http://localhost:4001"
    [] OTHER -> "http://localhost:4000"

Merchants == {merchantsCache[i] : i \in DOMAIN merchantsCache}

\* POST /nonce as the SDK sends it for a checkout of `intent` at time ts
NonceRequest(merchant, intent, ts) ==
  [EmptyRequest EXCEPT
     !.ep = "nonce", !.merchantId = merchant.merchantId,
     !.domain = HomeOf(merchant), !.ts = JNum(ts),
     !.intentHash = computeIntentHash(intent)]

\* the successful issuances so far
Issued == {i \in DOMAIN calls : /\ calls[i].req.ep = "nonce"
                                /\ calls[i].resp.status = 200}

IntentOf(hash) == CHOOSE intent \in Intents : computeIntentHash(intent) = hash

UserAgent == "Mozilla/5.0"
Hints == [language |-> "en-US", platform |-> "Linux", screen |-> "1920x1080"]

\* the device proof the SDK computes for a request
DeviceProof(merchant, req) ==
  LET deviceHash == computeDeviceHash(req, req.intentHash)
  IN [present |-> TRUE, deviceHash |-> deviceHash,
      proof |-> IF merchant.sessionSecret = "" THEN NoEnc
                ELSE toBase64Url(hmacSha256(merchant.sessionSecret, EncText(deviceHash)))]

\* the assertion of a platform authenticator for a request
Assertion(req) ==
  LET url == ParseUrl(req.domain)
  IN [present |-> TRUE, complete |-> TRUE,
      clientData |->
        [parses |-> TRUE, type |-> "webauthn.get", origin |-> OriginOf(url),
         challenge |-> toBase64Url(computeWebAuthnChallenge(
                         req.merchantId, OriginOf(url), ToNumber(req.ts),
                         req.intentHash, req.visualNonceHash))],
      authData |-> [rpIdHash |-> sha256(url.host), flags |-> {"UP", "UV"}]]

\* POST /verify as the SDK sends it after issuance n, with the proof of `method`
VerifyRequest(n, method, t) ==
  LET nonce == calls[n].req
      merchant == getMerchantById(merchantsCache, calls[n].m)
      origin == OriginOf(ParseUrl(nonce.domain))
      vnBytes == computeVisualNonceBytes(nonce.merchantId, origin, ToNumber(nonce.ts),
                                         nonce.intentHash)
      base == [nonce EXCEPT
                 !.ep = "verify", !.domain = origin,
                 !.hasIntent = TRUE, !.intent = IntentOf(nonce.intentHash),
                 !.visualNonce = toBase64Url(vnBytes),
                 !.visualNonceHash = toBase64Url(sha256(vnBytes)),
                 !.visualNonceSig = calls[n].resp.sig,
                 !.method = method, !.uaHints = Hints,
                 !.hOrigin = origin, !.hUserAgent = UserAgent]
  IN CASE method = "device" -> [base EXCEPT !.device = DeviceProof(merchant, base)]
       [] method = "webauthn" -> [base EXCEPT !.webauthn = Assertion(base)]
       [] method = "otp" ->
            [base EXCEPT !.otpCode =
               Totp(merchant.otpSecretHex, Floor(Floor(t, 1000), 30))]
       [] OTHER -> base

(***************************************************************************)
(* Specification: checkouts of registered merchants, honest or repeated    *)
(***************************************************************************)
\* a checkout asks for a nonce, for now or for the far edge of the skew window
CheckoutNonce ==
  /\ Len(calls) < MaxCalls
  /\ \E merchant \in Merchants, ts \in {now, now + TIMESTAMP_SKEW_MS} :
       Receive(NonceRequest(merchant, Widget, ts))

\* a proof is submitted, for the first time or again
SubmitProof ==
  /\ Len(calls) < MaxCalls
  /\ \E n \in Issued : Receive(VerifyRequest(n, "device", now))

Next ==
  \/ CheckoutNonce
  \/ SubmitProof
  \/ RedisExec
  \/ \E i \in DOMAIN calls : Resume(i)
  \/ TimerFire
  \/ Tick

Init == InitWith({parseMerchants(DEFAULT_MERCHANTS)})

Spec == Init /\ [][Next]_vars
(***************************************************************************)
(* Vocabulary of the properties                                            *)
(***************************************************************************)
NonceCalls == {i \in DOMAIN calls : calls[i].req.ep = "nonce"}
VerifyCalls == {i \in DOMAIN calls : calls[i].req.ep = "verify"}
Answered == {i \in DOMAIN calls : Done(calls[i])}

\* the store operations that have been applied, as <<call, position>>
Applied ==
  {x \in (DOMAIN calls) \X (1..4) :
     /\ x[2] <= Len(calls[x[1]].ops)
     /\ calls[x[1]].ops[x[2]].res # "pending"}
OpAt(x) == calls[x[1]].ops[x[2]]
SetOnceOps == {x \in Applied : OpAt(x).fn = "setOnce"}

\* op b was applied while the key claimed by op a had not reached its expiry
WithinTtl(a, b) == a.at <= b.at /\ b.at < a.at + a.ttl * 1000

\* the handler of call i reached its claim-once operation / won the claim
Claiming(i) == calls[i].ops # <<>> /\ calls[i].ops[1].res # "pending"
Claimed(i) == Claiming(i) /\ calls[i].ops[1].res = "true"

SameProof(i, j) ==
  /\ calls[i].m = calls[j].m
  /\ calls[i].req.visualNonceHash = calls[j].req.visualNonceHash

VerifiedTrue(i) == calls[i].resp.status = 200 /\ calls[i].resp.verified = "true"
RejectedWith(i, reason) ==
  /\ calls[i].resp.status = 200
  /\ calls[i].resp.verified = "false"
  /\ calls[i].resp.reason = reason

\* the step-up rule: an amount at or above the threshold needs webauthn
StepUpSatisfied(i) ==
  LET amount == ToNumber(OrElse(calls[i].req.intent.amount, JNum(0)))
      merchant == getMerchantById(merchantsCache, calls[i].m)
  IN (IsFinite(amount) /\ amount.n >= merchant.riskRules.stepUpAmount)
       => calls[i].req.method = "webauthn"

\* the velocity limit let the request of call i through
VelocitySatisfied(i) ==
  /\ Len(calls[i].ops) >= 2
  /\ calls[i].ops[2].res = "true"

\* the verifier of the method named by call i accepts its proof
FactorAccepted(i) ==
  LET req == calls[i].req
      merchant == getMerchantById(merchantsCache, calls[i].m)
      url == ParseUrl(req.domain)
  IN CASE req.method = "webauthn" ->
            validateWebAuthn(req.webauthn, req.merchantId, OriginOf(url),
                             ToNumber(req.ts), req.intentHash, req.visualNonceHash,
                             IF req.rpId # "" THEN req.rpId ELSE url.host) = ""
       [] req.method = "device" ->
            verifyDeviceProof(req.device, merchant.sessionSecret, req.intentHash, req) = ""
       [] req.method = "otp" ->
            /\ Len(calls[i].ops) = 4
            /\ calls[i].ops[3].res = "true" /\ calls[i].ops[4].res = "true"
            /\ verifyTotp(req.otpCode, merchant.otpSecretHex, calls[i].at)
       [] OTHER -> FALSE

(***************************************************************************)
(* Specification of the gates: one issuance (or two, for two intents of    *)
(* one checkout page), at most one earlier honest submission, and one      *)
(* submission that differs from the SDK's in up to two ways.  Requests     *)
(* arrive one at a time, within one observation of the clock.              *)
(***************************************************************************)
Methods == {"device", "webauthn", "otp"}

\* another merchant of the registry
Rival(merchant) ==
  CHOOSE m \in Merchants : m.merchantId # merchant.merchantId

Junk == toBase64Url("junk")

Variations ==
  { "none", "oversize", "noSig", "tsStale", "tsText", "badDomain", "evilPage",
    "siblingDomain", "ghostId", "rivalId", "originRival", "originEvil",
    "originSibling", "noOrigin", "refererJunk", "refererEvil", "refererPage",
    "forwardedEvil", "forwardedHome", "crossSite", "sameOrigin",
    "amountLow", "amountText", "currencyCase", "currencyEur", "description",
    "refMoved", "refChanged", "nonceJunk", "nonceStd", "hashJunk", "sigJunk",
    "factorBad", "methodSms" }

\* the request req of a checkout at `merchant`, changed in one way
Vary(req, v, merchant, t) ==
  CASE v = "oversize" -> [req EXCEPT !.payloadSize = MAX_PAYLOAD_BYTES + 1]
    [] v = "noSig" -> [req EXCEPT !.visualNonceSig = NoEnc]
    [] v = "tsStale" -> [req EXCEPT !.ts = JNum(t - TIMESTAMP_SKEW_MS - 1)]
    [] v = "tsText" -> [req EXCEPT !.ts = JStr("soon")]
    [] v = "badDomain" -> [req EXCEPT !.domain = "localhost"]
    [] v = "evilPage" -> [req EXCEPT !.domain = "http://evil.example",
                                     !.hOrigin = "http://evil.example"]
    [] v = "siblingDomain" -> [req EXCEPT !.domain = "http://localhost:5173"]
    [] v = "ghostId" -> [req EXCEPT !.merchantId = "ghost-store"]
    [] v = "rivalId" -> [req EXCEPT !.merchantId = Rival(merchant).merchantId]
    [] v = "originRival" -> [req EXCEPT !.hOrigin = HomeOf(Rival(merchant))]
    [] v = "originEvil" -> [req EXCEPT !.hOrigin = "http://evil.example"]
    [] v = "originSibling" -> [req EXCEPT !.hOrigin = "http://localhost:5173"]
    [] v = "noOrigin" -> [req EXCEPT !.hOrigin = ""]
    [] v = "refererJunk" -> [req EXCEPT !.hReferer = "checkout.html"]
    [] v = "refererEvil" -> [req EXCEPT !.hReferer = "http://evil.example"]
    [] v = "refererPage" -> [req EXCEPT !.hReferer = "http://localhost:3001/checkout"]
    [] v = "forwardedEvil" -> [req EXCEPT !.hForwardedHost = "evil.example"]
    [] v = "forwardedHome" ->
         [req EXCEPT !.hForwardedHost = ParseUrl(HomeOf(merchant)).host]
    [] v = "crossSite" -> [req EXCEPT !.hFetchSite = "CROSS-SITE"]
    [] v = "sameOrigin" -> [req EXCEPT !.hFetchSite = "Same-Origin"]
    [] v = "amountLow" -> [req EXCEPT !.intent.amount = JNum(1)]
    [] v = "amountText" -> [req EXCEPT !.intent.amount = JStr("02500")]
    [] v = "currencyCase" ->
         [req EXCEPT !.intent.currency = IF @ = "usd" THEN "USD" ELSE "usd"]
    [] v = "currencyEur" -> [req EXCEPT !.intent.currency = "EUR"]
    [] v = "description" -> [req EXCEPT !.intent.description = "Gizmo"]
    [] v = "refMoved" ->
         [req EXCEPT !.intent.reference = req.intent.merchant_reference,
                     !.intent.merchant_reference = ""]
    [] v = "refChanged" -> [req EXCEPT !.intent.merchant_reference = "ref-9"]
    [] v = "nonceJunk" -> [req EXCEPT !.visualNonce = Junk]
    [] v = "nonceStd" -> [req EXCEPT !.visualNonce.enc = "b64"]
    [] v = "hashJunk" -> [req EXCEPT !.visualNonceHash = Junk]
    [] v = "sigJunk" -> [req EXCEPT !.visualNonceSig = Junk]
    [] v = "factorBad" ->
         IF req.method = "device" THEN [req EXCEPT !.device.deviceHash = Junk]
         ELSE IF req.method = "webauthn"
         THEN [req EXCEPT !.webauthn.authData.flags = {"UP"}]
         ELSE [req EXCEPT !.otpCode = "000000"]
    [] v = "methodSms" -> [req EXCEPT !.method = "sms"]
    [] OTHER -> req

\* call i carries what the SDK sends for one of the issued nonces
Honest(i) ==
  \E n \in Issued : calls[i].req = VerifyRequest(n, "device", calls[i].at)

\* the checkout page asks for a nonce, naming its merchant or not; it may ask
\* for a second one, for its other intent
GateNonce ==
  /\ InFlight = {}
  /\ VerifyCalls = {}
  /\ \/ /\ calls = <<>>
        /\ \E merchant \in Merchants, intent \in Intents, id \in BOOLEAN :
             Receive([NonceRequest(merchant, intent, now) EXCEPT
                        !.merchantId = IF id THEN @ ELSE ""])
     \/ /\ NonceCalls # {}
        /\ \E intent \in Intents \ {IntentOf(calls[n].req.intentHash) : n \in Issued} :
             Receive([calls[FirstIndex(NonceCalls)].req EXCEPT
                        !.intentHash = computeIntentHash(intent)])

\* the SDK submits the proof of an issued nonce
EarlierProof ==
  /\ InFlight = {}
  /\ VerifyCalls = {}
  /\ \E n \in Issued : Receive(VerifyRequest(n, "device", now))

\* a submission for the first nonce that differs from the SDK's
Probe ==
  /\ InFlight = {}
  /\ Issued # {}
  /\ \/ VerifyCalls = {}
     \/ \E i \in DOMAIN calls : VerifyCalls = {i} /\ Honest(i)
  /\ \E method \in Methods, v1, v2 \in Variations :
       LET merchant == getMerchantById(merchantsCache, calls[FirstIndex(Issued)].m)
           sent == VerifyRequest(FirstIndex(Issued), method, now)
       IN Receive(Vary(Vary(sent, v1, merchant, now), v2, merchant, now))

NextGates ==
  \/ GateNonce
  \/ EarlierProof
  \/ Probe
  \/ RedisExec
  \/ \E i \in DOMAIN calls : Resume(i)

InitGates == InitWith(Registries)

SpecGates == InitGates /\ [][NextGates]_vars

(***************************************************************************)
(* The gates of POST /verify, one by one                                   *)
(***************************************************************************)
\* the gates in the order the handler is said to evaluate them
GateOrder ==
  << "payload size", "required fields", "timestamp skew", "domain parse",
     "merchant resolution", "origin header", "referer", "forwarded host",
     "fetch site", "dns attestation", "intent hash", "nonce", "proof replay",
     "step-up", "velocity", "method" >>

GateIndex(gate) == CHOOSE k \in DOMAIN GateOrder : GateOrder[k] = gate

\* the merchant the request of call i resolves to
Resolved(i) ==
  LET req == calls[i].req
      url == ParseUrl(req.domain)
  IN resolveMerchant(merchantsCache, req.merchantId,
                     IF req.hOrigin # "" THEN req.hOrigin ELSE OriginOf(url),
                     IF req.hForwardedHost # "" THEN req.hForwardedHost ELSE url.host)

\* the result of the k-th store operation of call i, "none" when not issued
StoreResult(i, k) ==
  IF Len(calls[i].ops) >= k THEN calls[i].ops[k].res ELSE "none"

\* the reason for which `gate`, taken alone, turns the request of call i down,
\* "" when it lets the request through; a gate that consults the store turns a
\* request down when its operation was issued and came back negative
GateVerdict(i, gate) ==
  LET req == calls[i].req
      t == calls[i].at
      ts == ToNumber(req.ts)
      url == ParseUrl(req.domain)
      origin == OriginOf(url)
      referer == ParseUrl(req.hReferer)
      merchant == Resolved(i)
      rules == merchant.riskRules
      vnBytes == computeVisualNonceBytes(req.merchantId, origin, ts, req.intentHash)
      amount == ToNumber(OrElse(req.intent.amount, JNum(0)))
      Fails(cond, reason) == IF cond THEN reason ELSE ""
  IN CASE gate = "payload size" ->
            Fails(req.payloadSize > MAX_PAYLOAD_BYTES, "payload_too_large")
       [] gate = "required fields" ->
            Fails(\/ req.domain = "" \/ ~req.hasIntent \/ req.method = ""
                  \/ \E f \in {req.intentHash, req.visualNonce, req.visualNonceHash,
                               req.visualNonceSig} : ~Present(f),
                  "missing_fields")
       [] gate = "timestamp skew" ->
            Fails(~IsFinite(ts) \/ ts.n < t - TIMESTAMP_SKEW_MS
                                \/ ts.n > t + TIMESTAMP_SKEW_MS, "stale_ts")
       [] gate = "domain parse" -> Fails(~url.ok, "invalid_domain")
       [] gate = "merchant resolution" ->
            IF merchant = NoMerchant THEN "unknown_merchant"
            ELSE IF req.merchantId \notin {"", merchant.merchantId}
            THEN "merchant_mismatch"
            ELSE Fails(/\ origin \notin merchant.allowedOrigins
                       /\ url.host \notin merchant.allowedHosts, "domain_mismatch")
       [] gate = "origin header" ->
            Fails(req.hOrigin \notin {"", origin}, "origin_mismatch")
       [] gate = "referer" ->
            IF req.hReferer = "" THEN ""
            ELSE IF ~referer.ok THEN "invalid_referer"
            ELSE Fails(OriginOf(referer) # origin, "referer_mismatch")
       [] gate = "forwarded host" ->
            Fails(req.hForwardedHost \notin ({""} \cup merchant.allowedHosts),
                  "forwarded_host_mismatch")
       [] gate = "fetch site" ->
            Fails(ToLowerCase(req.hFetchSite)
                    \notin {"", "same-origin", "same-site", "none"},
                  "fetch_metadata_violation")
       [] gate = "dns attestation" ->
            Fails(/\ rules.requireDnsAttestation /\ merchant.dnsTxt # {}
                  /\ {url.host, origin} \cap merchant.dnsTxt = {},
                  "dns_attestation_failed")
       [] gate = "intent hash" ->
            Fails(req.intentHash # toBase64Url(sha256(canonicalIntent(req.intent))),
                  "intent_mismatch")
       [] gate = "nonce" ->
            IF fromBase64Url(req.visualNonce) # vnBytes THEN "visual_nonce_mismatch"
            ELSE IF req.visualNonceHash # toBase64Url(sha256(vnBytes))
            THEN "visual_nonce_hash_mismatch"
            ELSE Fails(fromBase64Url(req.visualNonceSig) # Sign(merchant.keyId, vnBytes),
                       "visual_nonce_signature_invalid")
       [] gate = "proof replay" -> Fails(StoreResult(i, 1) = "false", "replay")
       [] gate = "step-up" ->
            Fails(StepUpRejects(rules, amount, req.method), "policy_requires_webauthn")
       [] gate = "velocity" -> Fails(StoreResult(i, 2) = "false", "velocity_exceeded")
       [] gate = "method" ->
            CASE req.method = "webauthn" ->
                   validateWebAuthn(req.webauthn, req.merchantId, origin, ts,
                                    req.intentHash, req.visualNonceHash,
                                    IF req.rpId # "" THEN req.rpId ELSE url.host)
              [] req.method = "device" ->
                   verifyDeviceProof(req.device, merchant.sessionSecret,
                                     req.intentHash, req)
              [] req.method = "otp" ->
                   Fails(\/ "false" \in {StoreResult(i, 3), StoreResult(i, 4)}
                         \/ req.otpCode = ""
                         \/ ~verifyTotp(req.otpCode, merchant.otpSecretHex, t),
                         "otp_invalid_or_rate_limited")
              [] OTHER -> "unsupported_method"

Passes(i, gate) == GateVerdict(i, gate) = ""

\* every gate listed before `gate` lets the request of call i through
PassesBefore(i, gate) ==
  \A k \in DOMAIN GateOrder : k < GateIndex(gate) => Passes(i, GateOrder[k])

FailingGates(i) == {k \in DOMAIN GateOrder : ~Passes(i, GateOrder[k])}

\* the store operations a handler has issued when it stops at gate k (at the
\* end, when k is one past the last gate): none up to the nonce gates, the
\* replay claim from there on, the velocity count from the velocity gate on,
\* and the two OTP counters in the OTP verifier
OpsUpTo(i, k) ==
  IF k < GateIndex("proof replay") THEN 0
  ELSE IF k < GateIndex("velocity") THEN 1
  ELSE IF k < GateIndex("method") \/ calls[i].req.method # "otp" THEN 2
  ELSE 4

\* the verify calls whose request is the SDK's but for its Origin header
OriginOnlyDiffers(i) ==
  \E n \in Issued, method \in Methods :
    [calls[i].req EXCEPT !.hOrigin = OriginOf(ParseUrl(calls[i].req.domain))]
      = VerifyRequest(n, method, calls[i].at)

(***************************************************************************)
(* Specification of the velocity limit: checkouts at the first merchant of *)
(* the registry configured through MERCHANTS_JSON, as time passes          *)
(***************************************************************************)
Shop == merchantsCache[FirstIndex(DOMAIN merchantsCache)]

VelocityNonce ==
  /\ Len(calls) <= MaxCalls
  /\ \E intent \in Intents : Receive(NonceRequest(Shop, intent, now))

VelocityProof ==
  /\ Len(calls) <= MaxCalls
  /\ \E n \in Issued : Receive(VerifyRequest(n, "device", now))

NextVelocity ==
  \/ VelocityNonce
  \/ VelocityProof
  \/ RedisExec
  \/ \E i \in DOMAIN calls : Resume(i)
  \/ TimerFire
  \/ Tick

InitVelocity == InitWith({parseMerchants(CUSTOM_MERCHANTS)})

SpecVelocity == InitVelocity /\ [][NextVelocity]_vars

\* the verify calls whose velocity count has been taken
AtVelocityGate == {i \in VerifyCalls : StoreResult(i, 2) \in {"true", "false"}}

VelocityOf(i) == getMerchantById(merchantsCache, calls[i].m).riskRules.velocity

\* the time at which call i was counted, and the window that time falls in
CountedAt(i) == calls[i].ops[2].at
WindowBucket(i) == CountedAt(i) \div (VelocityOf(i).windowSeconds * 1000)

Min(a, b) == IF a < b THEN a ELSE b

(***************************************************************************)
(* Specification of the entry checks: one POST /nonce request that differs *)
(* from the SDK's in up to two ways, then one POST /verify request for the *)
(* issued nonce that differs in up to one way, as time passes.             *)
(***************************************************************************)
EntryVariations ==
  { "none", "tsEdgePast", "tsPast", "tsEdgeAhead", "tsAhead", "tsText",
    "tsDigits", "tsNone", "badDomain", "evilPage", "siblingDomain", "ghostId",
    "rivalId", "noId", "noHash" }

VaryEntry(req, v, merchant, t) ==
  CASE v = "tsEdgePast" -> [req EXCEPT !.ts = JNum(t - TIMESTAMP_SKEW_MS)]
    [] v = "tsPast" -> [req EXCEPT !.ts = JNum(t - TIMESTAMP_SKEW_MS - 1)]
    [] v = "tsEdgeAhead" -> [req EXCEPT !.ts = JNum(t + TIMESTAMP_SKEW_MS)]
    [] v = "tsAhead" -> [req EXCEPT !.ts = JNum(t + TIMESTAMP_SKEW_MS + 1)]
    [] v = "tsDigits" -> [req EXCEPT !.ts = JStr("120000")]
    [] v = "tsNone" -> [req EXCEPT !.ts = JUndef]
    [] v = "noId" -> [req EXCEPT !.merchantId = ""]
    [] v = "noHash" -> [req EXCEPT !.intentHash = NoEnc]
    [] OTHER -> Vary(req, v, merchant, t)

EntryNonce ==
  /\ calls = <<>>
  /\ \E merchant \in Merchants, v1, v2 \in EntryVariations :
       Receive(VaryEntry(VaryEntry(NonceRequest(merchant, Widget, now),
                                   v1, merchant, now), v2, merchant, now))

EntryVerify ==
  /\ InFlight = {}
  /\ VerifyCalls = {}
  /\ \E n \in Issued, v \in EntryVariations :
       LET merchant == getMerchantById(merchantsCache, calls[n].m)
       IN Receive(VaryEntry(VerifyRequest(n, "device", now), v, merchant, now))

NextEntry ==
  \/ EntryNonce
  \/ EntryVerify
  \/ RedisExec
  \/ \E i \in DOMAIN calls : Resume(i)
  \/ TimerFire
  \/ Tick

InitEntry == InitWith({parseMerchants(DEFAULT_MERCHANTS)})

SpecEntry == InitEntry /\ [][NextEntry]_vars

\* the request of call i names a merchant of the registry and carries a domain
\* that parses and is in neither of that merchant's allowed sets
IdentityDisagrees(i) ==
  LET req == calls[i].req
      url == ParseUrl(req.domain)
      named == getMerchantById(merchantsCache, req.merchantId)
  IN /\ named # NoMerchant
     /\ url.ok
     /\ OriginOf(url) \notin named.allowedOrigins
     /\ url.host \notin named.allowedHosts

\* the checks of POST /nonce that come before merchant resolution let the
\* request of call i through
NonceWellFormed(i) ==
  LET req == calls[i].req
      ts == ToNumber(req.ts)
  IN /\ req.domain # "" /\ Present(req.intentHash) /\ IsFinite(ts)
     /\ ts.n >= calls[i].at - TIMESTAMP_SKEW_MS
     /\ ts.n <= calls[i].at + TIMESTAMP_SKEW_MS

\* |now - ts| exceeds the skew window, or ts is not a finite number
OutOfSkew(i) ==
  LET ts == ToNumber(calls[i].req.ts)
  IN \/ ~IsFinite(ts)
     \/ ts.n < calls[i].at - TIMESTAMP_SKEW_MS
     \/ ts.n > calls[i].at + TIMESTAMP_SKEW_MS

StaleAnswer(i) ==
  IF calls[i].req.ep = "nonce"
  THEN calls[i].resp.status = 400 /\ calls[i].resp.reason = "stale_ts"
  ELSE RejectedWith(i, "stale_ts")

(***************************************************************************)
(* The SDK: its derivations (src/unnamed/part_005)                         *)
(***************************************************************************)
\* JSON.stringify and JSON.parse of a scalar: NaN travels as null
Json(v) == IF v.k = "nan" THEN JNull ELSE v

bufferToBase64Url(bytes) == Enc("b64url", bytes)
sha256Base64Url(input) == bufferToBase64Url(sha256(input))

\* a nonce derivation that prints a missing merchantId instead of dropping it
computeVisualNonce_PrintsNull(merchantId, domain, ts, intentHash) ==
  sha256(Template(merchantId) \o "|" \o domain \o "|" \o Template(ts)
         \o "|" \o EncText(intentHash))

computeVisualNonce(merchantId, domain, ts, intentHash) ==
  sha256(Template(OrElse(merchantId, JStr(""))) \o "|" \o domain \o "|" \o Template(ts)
         \o "|" \o EncText(intentHash))

\* an intent normalisation that leaves the currency as it was given
normalizeIntent_KeepsCase(intent, t) ==
  [amount |-> ToNumber(OrElse(intent.amount, JNum(0))),
   currency |-> IF intent.currency # "" THEN intent.currency ELSE "USD",
   description |-> intent.description,
   merchant_reference |->
     IF intent.merchant_reference # "" THEN intent.merchant_reference
     ELSE IF intent.reference # "" THEN intent.reference
     ELSE "ref-" \o ToString(t),
   reference |-> ""]

\* normalizeIntent at Date.now() = t
normalizeIntent(intent, t) ==
  [amount |-> ToNumber(OrElse(intent.amount, JNum(0))),
   currency |-> ToUpperCase(IF intent.currency # "" THEN intent.currency ELSE "USD"),
   description |-> intent.description,
   merchant_reference |->
     IF intent.merchant_reference # "" THEN intent.merchant_reference
     ELSE IF intent.reference # "" THEN intent.reference
     ELSE "ref-" \o ToString(t),
   reference |-> ""]

\* the canonical string of buildIntentHash
buildIntentCanonical(intent) ==
  Template(intent.amount) \o "|" \o intent.currency \o "|" \o intent.description
    \o "|" \o intent.merchant_reference

buildIntentHash(intent) == sha256Base64Url(buildIntentCanonical(intent))

\* the intent of the /verify payload, as the gateway parses it
PayloadIntent(normalized) == [normalized EXCEPT !.amount = Json(@)]

\* const merchantComponent = merchantId ?? ''  of both handlers, printed
merchantComponent(merchantId) == Template(Coalesce(merchantId, JStr("")))

(***************************************************************************)
(* Specification of the derivations: one page, one intent; the SDK derives *)
(* the intent hash and the nonce, the gateway derives them again from the  *)
(* bodies of the SDK's two requests                                        *)
(***************************************************************************)
\* the merchantId option of new GhostPIN(options)
MerchantIdOptions == {JUndef, JNull, JStr(""), JStr("secure-store"), JStr("clone-store")}
\* window.location.origin
PageOrigins == {"http://localhost:3001", "http://localhost:3002", "http://evil.example"}
\* the intents a page passes to authenticateAndVerify
RawIntents ==
  [amount : {JUndef, JNum(0), JNum(2500), JStr("2500"), JStr("02500")},
   currency : {"", "usd", "USD", "eur"},
   description : {"", "Widget"},
   merchant_reference : {"", "ref-1"},
   reference : {"", "ref-9"}]

NoDerivation == [done |-> FALSE, canonical |-> "", intentHash |-> NoEnc, vnBytes |-> ""]
Derivation(canonical, intentHash, vnBytes) ==
  [done |-> TRUE, canonical |-> canonical, intentHash |-> intentHash, vnBytes |-> vnBytes]

\* applyConfig: an undefined merchantId is kept as null
applyConfig(merchantId) == IF merchantId.k = "undef" THEN JNull ELSE merchantId

\* authenticateAndVerify up to generateVisualNonce: the SDK's own derivation
DeriveOnPage ==
  LET normalizedIntent == normalizeIntent(sdk.intent, sdk.ts)
      intentHash == buildIntentHash(normalizedIntent)
  IN Derivation(buildIntentCanonical(normalizedIntent), intentHash,
                computeVisualNonce(sdk.merchantId, sdk.origin, JNum(sdk.ts), intentHash))

\* the body of the SDK's POST /nonce and of its POST /verify, parsed
NonceBody ==
  [merchantId |-> sdk.merchantId, domain |-> sdk.origin, ts |-> Json(JNum(sdk.ts)),
   intentHash |-> sdk.client.intentHash]
VerifyBody ==
  [merchantId |-> OrElse(sdk.merchantId, JNull), domain |-> sdk.origin,
   ts |-> Json(JNum(sdk.ts)), intentHash |-> sdk.client.intentHash,
   intent |-> PayloadIntent(normalizeIntent(sdk.intent, sdk.ts))]

ClientDerive ==
  /\ ~sdk.client.done
  /\ sdk' = [sdk EXCEPT !.client = DeriveOnPage]
  /\ UNCHANGED <<now, backend, merchantsCache, memoryCache, timers, redisKeys,
                 redisQueue, calls>>

\* a second, independent derivation from the same inputs
ClientDeriveAgain ==
  /\ sdk.client.done /\ ~sdk.again.done
  /\ sdk' = [sdk EXCEPT !.again = DeriveOnPage]
  /\ UNCHANGED <<now, backend, merchantsCache, memoryCache, timers, redisKeys,
                 redisQueue, calls>>

\* POST /nonce derives the bytes it signs
NonceDerive ==
  /\ sdk.client.done /\ ~sdk.atNonce.done
  /\ LET body == NonceBody
         url == ParseUrl(body.domain)
     IN sdk' = [sdk EXCEPT !.atNonce =
                  Derivation("", body.intentHash,
                    computeVisualNonceBytes(merchantComponent(body.merchantId),
                                            OriginOf(url), body.ts, body.intentHash))]
  /\ UNCHANGED <<now, backend, merchantsCache, memoryCache, timers, redisKeys,
                 redisQueue, calls>>

\* POST /verify recomputes the intent hash and the nonce
VerifyDerive ==
  /\ sdk.client.done /\ ~sdk.atVerify.done
  /\ LET body == VerifyBody
         url == ParseUrl(body.domain)
         timestamp == ToNumber(body.ts)
     IN sdk' = [sdk EXCEPT !.atVerify =
                  Derivation(canonicalIntent(body.intent), computeIntentHash(body.intent),
                    computeVisualNonceBytes(merchantComponent(body.merchantId),
                                            OriginOf(url), timestamp, body.intentHash))]
  /\ UNCHANGED <<now, backend, merchantsCache, memoryCache, timers, redisKeys,
                 redisQueue, calls>>

NextDerive == ClientDerive \/ ClientDeriveAgain \/ NonceDerive \/ VerifyDerive

InitDerive ==
  /\ now = StartMs
  /\ backend = "memory"
  /\ merchantsCache = parseMerchants(DEFAULT_MERCHANTS)
  /\ memoryCache = <<>>
  /\ timers = {}
  /\ redisKeys = <<>>
  /\ redisQueue = <<>>
  /\ calls = <<>>
  /\ \E merchantId \in MerchantIdOptions, origin \in PageOrigins, intent \in RawIntents :
       sdk = [loaded |-> TRUE, merchantId |-> applyConfig(merchantId), origin |-> origin,
              intent |-> intent, ts |-> now,
              client |-> NoDerivation, again |-> NoDerivation,
              atNonce |-> NoDerivation, atVerify |-> NoDerivation]

SpecDerive == InitDerive /\ [][NextDerive]_vars

(***************************************************************************)
(* The SDK: authenticateAndVerify (src/unnamed/part_005), and              *)
(* handleCheckout of the demo page (src/demo/ghostpin-checkout.js)         *)
(*                                                                         *)
(* A flow is one invocation of authenticateAndVerify.  It runs from one    *)
(* await to the next without interruption; `pc` names the await it is at.  *)
(* What a flow awaits comes from outside the SDK (the network, the         *)
(* authenticator, the user) and is drawn from the outcomes the code        *)
(* distinguishes.  `trace` lists what the flow has done, in order.         *)
(***************************************************************************)
gatewayVars == <<now, backend, merchantsCache, memoryCache, timers, redisKeys,
                 redisQueue, calls>>

NoResult == [kind |-> "pending", verified |-> FALSE, reason |-> "", method |-> ""]
Returned(verified, reason, method) ==
  [kind |-> "returned", verified |-> verified, reason |-> reason, method |-> method]
Thrown(reason) ==
  [kind |-> "thrown", verified |-> FALSE, reason |-> reason, method |-> ""]

Did(e, x) == [e |-> e, x |-> x]

\* the fields of the /verify payload that depend on the factor
Payload(flow, method) ==
  [method |-> method, webauthn |-> flow.webauthnData, otp |-> flow.otpData,
   device |-> flow.deviceData, consent |-> flow.consentState]
NoPayload ==
  [method |-> "", webauthn |-> "null", otp |-> "null", device |-> "null", consent |-> ""]

NewFlow(via, strongest) ==
  [via |-> via, requireStrongestFactor |-> strongest, pc |-> "init", entered |-> FALSE,
   trace |-> <<>>, webauthnError |-> "", otpError |-> "", method |-> "",
   consentState |-> "enabled", webauthnData |-> "null", otpData |-> "null",
   deviceData |-> "null", payload |-> NoPayload,
   result |-> NoResult, settled |-> FALSE]

\* return / throw of authenticateAndVerify
Finish(flow, result) == [flow EXCEPT !.pc = "done", !.result = result]

\* await this.tryWebAuthn(...)
StartWebAuthn(flow) ==
  [flow EXCEPT !.pc = "webauthn", !.trace = Append(@, Did("webauthn", "start"))]
\* await this.onConsent(...)
StartConsent(flow) ==
  [flow EXCEPT !.pc = "consent", !.trace = Append(@, Did("consent", "start"))]
\* await this.tryOtpFallback(): the code prompt opens
StartOtp(flow) ==
  [flow EXCEPT !.pc = "otp", !.trace = Append(@, Did("otp", "start"))]
\* await this.tryDeviceFallback(intentHash)
StartDevice(flow) ==
  [flow EXCEPT !.pc = "device", !.trace = Append(@, Did("device", "start"))]
\* a submission whose payload keeps the initial method
Submit_KeepsDefault(flow, method) ==
  [flow EXCEPT !.pc = "verify", !.method = "webauthn",
               !.payload = Payload(flow, "webauthn"),
               !.trace = Append(@, Did("POST /verify", "webauthn"))]

\* await this.sendVerificationRequest(payload) with payload.method = method
Submit(flow, method) ==
  [flow EXCEPT !.pc = "verify", !.method = method,
               !.payload = Payload(flow, method),
               !.trace = Append(@, Did("POST /verify", method))]

\* a factor attempt of the flow has ended
Ended(flow, factor, how) == [flow EXCEPT !.trace = Append(@, Did(factor, how))]

Flows == DOMAIN sdk.flows

SetFlow(f, flow, guard) ==
  /\ sdk' = [sdk EXCEPT !.flows[f] = flow, !.verificationInProgress = guard]
  /\ UNCHANGED gatewayVars

\* a script of the page calls authenticateAndVerify, once
Call ==
  /\ \A f \in Flows : sdk.flows[f].via # "api"
  /\ \E strongest \in BOOLEAN :
       sdk' = [sdk EXCEPT !.flows = Append(@, NewFlow("api", strongest))]
  /\ UNCHANGED gatewayVars

\* the checkout button of the demo page is clicked, and clicked again while it
\* is processing: handleCheckout up to its await
Click ==
  /\ sdk.ghostpinProcessing \/ \A f \in Flows : sdk.flows[f].via # "button"
  /\ sdk' = IF sdk.ghostpinProcessing
            THEN [sdk EXCEPT !.clickIgnored = TRUE]
            ELSE [sdk EXCEPT !.ghostpinProcessing = TRUE,
                             !.flows = Append(@, NewFlow("button", FALSE))]
  /\ UNCHANGED gatewayVars

\* an authenticateAndVerify that enters whatever the in-flight flag says
Enter_Unguarded(f) ==
  /\ sdk.flows[f].pc = "init"
  /\ LET flow == sdk.flows[f]
     IN IF ~sdk.webCrypto
        THEN SetFlow(f, Finish(flow, Thrown("Web Crypto API not supported")),
                     sdk.verificationInProgress)
        ELSE SetFlow(f, [flow EXCEPT !.pc = "nonce", !.entered = TRUE,
                                     !.trace = <<Did("nonce", "derived"),
                                                 Did("POST /nonce", "")>>],
                     TRUE)

\* ensureInitialized has returned: the guard, the derivations, and the request
\* to /nonce is sent
Enter(f) ==
  /\ sdk.flows[f].pc = "init"
  /\ LET flow == sdk.flows[f]
     IN IF ~sdk.webCrypto
        THEN SetFlow(f, Finish(flow, Thrown("Web Crypto API not supported")),
                     sdk.verificationInProgress)
        ELSE IF sdk.verificationInProgress
        THEN SetFlow(f, Finish(flow, Returned(FALSE, "verification_in_progress", "")),
                     TRUE)
        ELSE SetFlow(f, [flow EXCEPT !.pc = "nonce", !.entered = TRUE,
                                     !.trace = <<Did("nonce", "derived"),
                                                 Did("POST /nonce", "")>>],
                     TRUE)

\* fetchVisualNonceSignature settles; on success tryWebAuthn is called
NonceReply(f) ==
  /\ sdk.flows[f].pc = "nonce"
  /\ \E outcome \in {"signed", "not ok", "no signature", "network"} :
       LET flow == sdk.flows[f]
       IN CASE outcome = "signed" -> SetFlow(f, StartWebAuthn(flow), TRUE)
            [] outcome = "no signature" ->
                 SetFlow(f, Finish(flow, Thrown("Missing visual nonce signature")), TRUE)
            [] outcome = "not ok" ->
                 SetFlow(f, Finish(flow, Thrown("Failed to sign visual nonce")), TRUE)
            [] OTHER -> SetFlow(f, Finish(flow, Thrown("network")), TRUE)

\* a fallback that leaves the consent state as it was
WebAuthnDone_KeepsConsent(f) ==
  /\ sdk.flows[f].pc = "webauthn"
  /\ \E outcome \in {"success", "webauthn_unavailable", "user_cancelled"} :
       LET flow == sdk.flows[f]
           enforceStrongest == flow.requireStrongestFactor \/ sdk.requireStrongestDefault
           failed == [Ended(flow, "webauthn", "failed") EXCEPT !.webauthnError = outcome]
           fallback == [failed EXCEPT !.consentState = @]
       IN IF outcome = "success"
          THEN SetFlow(f, Submit([Ended(flow, "webauthn", "succeeded") EXCEPT
                                    !.webauthnData = "assertion"], "webauthn"), TRUE)
          ELSE IF enforceStrongest
          THEN SetFlow(f, Finish(failed, Returned(FALSE, outcome, "")), FALSE)
          ELSE IF sdk.onConsent
          THEN SetFlow(f, StartConsent(fallback), TRUE)
          ELSE SetFlow(f, StartOtp(fallback), TRUE)

\* an SDK that enforces the strongest factor only on request of the call
WebAuthnDone_ArgumentOnly(f) ==
  /\ sdk.flows[f].pc = "webauthn"
  /\ \E outcome \in {"success", "webauthn_unavailable", "user_cancelled"} :
       LET flow == sdk.flows[f]
           enforceStrongest == flow.requireStrongestFactor
           failed == [Ended(flow, "webauthn", "failed") EXCEPT !.webauthnError = outcome]
           fallback == [failed EXCEPT !.consentState = "fallback"]
       IN IF outcome = "success"
          THEN SetFlow(f, Submit([Ended(flow, "webauthn", "succeeded") EXCEPT
                                    !.webauthnData = "assertion"], "webauthn"), TRUE)
          ELSE IF enforceStrongest
          THEN SetFlow(f, Finish(failed, Returned(FALSE, outcome, "")), FALSE)
          ELSE IF sdk.onConsent
          THEN SetFlow(f, StartConsent(fallback), TRUE)
          ELSE SetFlow(f, StartOtp(fallback), TRUE)

\* tryWebAuthn settles
WebAuthnDone(f) ==
  /\ sdk.flows[f].pc = "webauthn"
  /\ \E outcome \in {"success", "webauthn_unavailable", "user_cancelled"} :
       LET flow == sdk.flows[f]
           enforceStrongest == flow.requireStrongestFactor \/ sdk.requireStrongestDefault
           failed == [Ended(flow, "webauthn", "failed") EXCEPT !.webauthnError = outcome]
           fallback == [failed EXCEPT !.consentState = "fallback"]
       IN IF outcome = "success"
          THEN SetFlow(f, Submit([Ended(flow, "webauthn", "succeeded") EXCEPT
                                    !.webauthnData = "assertion"], "webauthn"), TRUE)
          ELSE IF enforceStrongest
          THEN SetFlow(f, Finish(failed, Returned(FALSE, outcome, "")), FALSE)
          ELSE IF sdk.onConsent
          THEN SetFlow(f, StartConsent(fallback), TRUE)
          ELSE SetFlow(f, StartOtp(fallback), TRUE)

\* a consent step that takes only `false` as a refusal
ConsentDone_OnlyFalse(f) ==
  /\ sdk.flows[f].pc = "consent"
  /\ \E consentResult \in {"false", "declined", "fallback", "throws"} :
       LET flow == Ended(sdk.flows[f], "consent", consentResult)
       IN IF consentResult = "false"
          THEN SetFlow(f, Finish(flow, Returned(FALSE, "user_declined_consent", "")), FALSE)
          ELSE SetFlow(f, StartOtp(flow), TRUE)

\* the consent callback settles
ConsentDone(f) ==
  /\ sdk.flows[f].pc = "consent"
  /\ \E consentResult \in {"false", "declined", "fallback", "throws"} :
       LET flow == Ended(sdk.flows[f], "consent", consentResult)
       IN IF consentResult \in {"false", "declined"}
          THEN SetFlow(f, Finish(flow, Returned(FALSE, "user_declined_consent", "")), FALSE)
          ELSE SetFlow(f, StartOtp(flow), TRUE)

\* a fallback that goes on to the device factor after a cancelled prompt
OtpDone_FallsThrough(f) ==
  /\ sdk.flows[f].pc = "otp"
  /\ \E code \in {"null", "", "123456", "12ab", "throws"} :
       LET flow == sdk.flows[f]
           error == CASE code \in {"null", ""} -> "otp_cancelled"
                      [] code = "12ab" -> "otp_invalid"
                      [] OTHER -> "otp_failed"
           failed == [Ended(flow, "otp", IF error = "otp_cancelled" THEN "cancelled"
                                         ELSE "failed")
                        EXCEPT !.otpError = error]
       IN IF code = "123456"
          THEN SetFlow(f, Submit([Ended(flow, "otp", "succeeded") EXCEPT
                                    !.otpData = "code", !.consentState = "fallback"],
                                 "otp"), TRUE)
          ELSE SetFlow(f, StartDevice(failed), TRUE)

\* tryOtpFallback settles: the prompt was cancelled (null), submitted empty,
\* submitted with six digits or with something else, or it failed
OtpDone(f) ==
  /\ sdk.flows[f].pc = "otp"
  /\ \E code \in {"null", "", "123456", "12ab", "throws"} :
       LET flow == sdk.flows[f]
           error == CASE code \in {"null", ""} -> "otp_cancelled"
                      [] code = "12ab" -> "otp_invalid"
                      [] OTHER -> "otp_failed"
           failed == [Ended(flow, "otp", IF error = "otp_cancelled" THEN "cancelled"
                                         ELSE "failed")
                        EXCEPT !.otpError = error]
       IN IF code = "123456"
          THEN SetFlow(f, Submit([Ended(flow, "otp", "succeeded") EXCEPT
                                    !.otpData = "code", !.consentState = "fallback"],
                                 "otp"), TRUE)
          ELSE IF error = "otp_cancelled"
          THEN SetFlow(f, Finish(failed, Returned(FALSE, "otp_cancelled", "")), FALSE)
          ELSE SetFlow(f, StartDevice(failed), TRUE)

\* tryDeviceFallback settles
DeviceDone(f) ==
  /\ sdk.flows[f].pc = "device"
  /\ \E success \in BOOLEAN :
       LET flow == sdk.flows[f]
       IN IF success
          THEN SetFlow(f, Submit([Ended(flow, "device", "succeeded") EXCEPT
                                    !.deviceData = "proof"], "device"), TRUE)
          ELSE SetFlow(f, Finish(Ended(flow, "device", "failed"),
                                 Returned(FALSE, "device_proof_failed", "")), FALSE)

\* a submission whose network failure is turned into a verdict
VerifyReply_Swallows(f) ==
  /\ sdk.flows[f].pc = "verify"
  /\ \E outcome \in {"verified", "rejected", "not ok", "network"} :
       LET flow == sdk.flows[f]
           emitted == [flow EXCEPT !.trace = Append(@, Did("emit", "verification"))]
       IN CASE outcome = "verified" ->
                 SetFlow(f, Finish(emitted, Returned(TRUE, "", flow.method)), FALSE)
            [] outcome = "rejected" ->
                 SetFlow(f, Finish(emitted, Returned(FALSE, "replay", "")), FALSE)
            [] outcome = "not ok" ->
                 SetFlow(f, Finish(emitted, Returned(FALSE, "http_500", "")), FALSE)
            [] OTHER ->
                 SetFlow(f, Finish([flow EXCEPT !.trace = Append(@, Did("network", "failed"))],
                                   Returned(FALSE, "network", "")), FALSE)

\* sendVerificationRequest settles: a verdict of the gateway, an error status
\* without a body, or a network failure / abort by the request timeout
VerifyReply(f) ==
  /\ sdk.flows[f].pc = "verify"
  /\ \E outcome \in {"verified", "rejected", "not ok", "network"} :
       LET flow == sdk.flows[f]
           emitted == [flow EXCEPT !.trace = Append(@, Did("emit", "verification"))]
       IN CASE outcome = "verified" ->
                 SetFlow(f, Finish(emitted, Returned(TRUE, "", flow.method)), FALSE)
            [] outcome = "rejected" ->
                 SetFlow(f, Finish(emitted, Returned(FALSE, "replay", "")), FALSE)
            [] outcome = "not ok" ->
                 SetFlow(f, Finish(emitted, Returned(FALSE, "http_500", "")), FALSE)
            [] OTHER ->
                 SetFlow(f, Finish([flow EXCEPT !.trace = Append(@, Did("network", "failed"))],
                                   Thrown("network")), FALSE)

\* handleCheckout after its await: the finally block
Settle(f) ==
  /\ sdk.flows[f].via = "button"
  /\ sdk.flows[f].pc = "done"
  /\ ~sdk.flows[f].settled
  /\ sdk' = [sdk EXCEPT !.flows[f].settled = TRUE, !.ghostpinProcessing = FALSE]
  /\ UNCHANGED gatewayVars

NextClient ==
  \/ Call
  \/ Click
  \/ \E f \in Flows : Enter(f)
  \/ \E f \in Flows : NonceReply(f)
  \/ \E f \in Flows : WebAuthnDone(f)
  \/ \E f \in Flows : ConsentDone(f)
  \/ \E f \in Flows : OtpDone(f)
  \/ \E f \in Flows : DeviceDone(f)
  \/ \E f \in Flows : VerifyReply(f)
  \/ \E f \in Flows : Settle(f)

InitClient ==
  /\ now = StartMs
  /\ backend = "memory"
  /\ merchantsCache = parseMerchants(DEFAULT_MERCHANTS)
  /\ memoryCache = <<>>
  /\ timers = {}
  /\ redisKeys = <<>>
  /\ redisQueue = <<>>
  /\ calls = <<>>
  /\ \E onConsent \in BOOLEAN, strongest \in BOOLEAN, webCrypto \in BOOLEAN :
       sdk = [loaded |-> TRUE, onConsent |-> onConsent,
              requireStrongestDefault |-> strongest, webCrypto |-> webCrypto,
              verificationInProgress |-> FALSE, ghostpinProcessing |-> FALSE,
              clickIgnored |-> FALSE, flows |-> <<>>]

SpecClient == InitClient /\ [][NextClient]_vars

\* the flows that are past the in-flight guard and have not returned or thrown
ActiveFlows == {f \in Flows : sdk.flows[f].entered /\ sdk.flows[f].pc # "done"}
\* the positions in the trace of flow f where it did e with detail x
At(f, e, x) == {k \in DOMAIN sdk.flows[f].trace : sdk.flows[f].trace[k] = Did(e, x)}
\* flow f did e (with any detail)
Ever(f, e) == \E k \in DOMAIN sdk.flows[f].trace : sdk.flows[f].trace[k].e = e

(***************************************************************************)
(* Specification of store failures: checkouts one after another, over a    *)
(* store that may fail any command                                         *)
(***************************************************************************)
FailureNonce ==
  /\ Len(calls) < MaxCalls
  /\ InFlight = {}
  /\ \E merchant \in Merchants : Receive(NonceRequest(merchant, Widget, now))

FailureProof ==
  /\ Len(calls) < MaxCalls
  /\ InFlight = {}
  /\ \E n \in Issued, method \in {"device", "otp"} :
       Receive(VerifyRequest(n, method, now))

NextFailure ==
  \/ FailureNonce
  \/ FailureProof
  \/ RedisExec
  \/ RedisFail
  \/ \E i \in DOMAIN calls : Resume(i)

InitFailure == InitWith({parseMerchants(DEFAULT_MERCHANTS)})

SpecFailure == InitFailure /\ [][NextFailure]_vars

\* the store operations of kind fn that failed while call i was processed
FailedOps(i, fn) ==
  {k \in DOMAIN calls[i].ops : calls[i].ops[k].fn = fn /\ calls[i].ops[k].res = "error"}

(***************************************************************************)
(* Specification of the edges of merchant resolution: registries whose     *)
(* merchants require DNS attestation, pages served over another scheme,    *)
(* requests rejected while keys are held                                   *)
(***************************************************************************)
\* a MERCHANTS_JSON whose merchants require DNS attestation: one publishes no
\* attestation record, one publishes a record that does not name its host
ATTESTING_MERCHANTS ==
  << [ merchantId |-> "bare-store",
       allowedOrigins |-> {"http://localhost:4000"},
       allowedHosts |-> {},
       dnsTxt |-> {},
       keyId |-> "bare-store-key",
       sessionSecret |-> "bare-store-session-secret",
       otpSecretHex |-> "",
       riskRules |-> [ requireDnsAttestation |-> TRUE ] ],
     [ merchantId |-> "dns-store",
       allowedOrigins |-> {"http://localhost:4001"},
       allowedHosts |-> {},
       dnsTxt |-> {"dns-store.example"},
       keyId |-> "dns-store-key",
       sessionSecret |-> "dns-store-session-secret",
       otpSecretHex |-> "00112233445566778899aabbccddeeff",
       riskRules |-> [ requireDnsAttestation |-> TRUE ] ] >>

EdgeNonceVariations ==
  { "none", "noId", "httpsPage", "httpsNoId", "noHash", "tsPast", "badDomain",
    "evilGhost" }

EdgeVerifyVariations ==
  { "none", "oversize", "noSig", "tsStale", "badDomain", "rivalId", "evilPage",
    "originEvil", "refererEvil", "refererJunk", "forwardedEvil", "crossSite",
    "currencyEur", "nonceJunk", "hashJunk", "sigJunk" }

VaryEdge(req, v, merchant, t) ==
  CASE v = "httpsPage" -> [req EXCEPT !.domain = "https://localhost:3001"]
    [] v = "httpsNoId" -> [req EXCEPT !.domain = "https://localhost:3001",
                                      !.merchantId = ""]
    [] v = "evilGhost" -> [req EXCEPT !.domain = "http://evil.example",
                                      !.merchantId = "ghost-store"]
    [] OTHER -> VaryEntry(req, v, merchant, t)

\* pages ask for nonces until one request is turned down
EdgeNonce ==
  /\ InFlight = {}
  /\ VerifyCalls = {}
  /\ Issued = DOMAIN calls
  /\ \E merchant \in Merchants, v \in EdgeNonceVariations :
       Receive(VaryEdge(NonceRequest(merchant, Widget, now), v, merchant, now))

\* a proof is submitted for one of the issued nonces, as the SDK builds it or
\* changed in one way
EdgeVerify ==
  /\ InFlight = {}
  /\ VerifyCalls = {}
  /\ \E n \in Issued, v \in EdgeVerifyVariations :
       LET merchant == getMerchantById(merchantsCache, calls[n].m)
       IN Receive(VaryEdge(VerifyRequest(n, "device", now), v, merchant, now))

NextEdge ==
  \/ EdgeNonce
  \/ EdgeVerify
  \/ RedisExec
  \/ \E i \in DOMAIN calls : Resume(i)

InitEdge ==
  InitWith({parseMerchants(DEFAULT_MERCHANTS), parseMerchants(ATTESTING_MERCHANTS)})

SpecEdge == InitEdge /\ [][NextEdge]_vars

(***************************************************************************)
(* Specification of the replay TTL: a page whose clock runs ahead asks for *)
(* the same nonce again and again, and its proofs are submitted again,     *)
(* while the clock passes the two-minute replay TTL of its merchant        *)
(***************************************************************************)
RetryNonce ==
  /\ Len(calls) < MaxCalls
  /\ Receive(NonceRequest(Shop, Widget, StartMs + TIMESTAMP_SKEW_MS))

NextTtl ==
  \/ RetryNonce
  \/ SubmitProof
  \/ RedisExec
  \/ \E i \in DOMAIN calls : Resume(i)
  \/ TimerFire
  \/ Tick

InitTtl == InitWith({parseMerchants(CUSTOM_MERCHANTS)})

SpecTtl == InitTtl /\ [][NextTtl]_vars

(***************************************************************************)
(* Specification of the one-time-code limits: one shop takes checkout      *)
(* after checkout by one-time code while minutes pass, until a code is     *)
(* turned down                                                             *)
(***************************************************************************)
\* the time-step code the shop's customer reads at time t
CurrentCode(t) == Totp(Shop.otpSecretHex, Floor(Floor(t, 1000), 30))

\* the issued nonces whose proof has not been submitted
OtpDue ==
  {n \in Issued : \A i \in VerifyCalls : calls[i].req.visualNonceSig # calls[n].resp.sig}

\* every code so far was the current one and was accepted
OtpSteady ==
  /\ NonceCalls \subseteq Issued
  /\ \A i \in VerifyCalls : /\ calls[i].resp.verified = "true"
                            /\ calls[i].req.otpCode = CurrentCode(calls[i].at)

\* the timestamps within the skew window for which the shop has issued no
\* nonce yet
OtpFresh ==
  {ts \in {now + k * 30000 : k \in -4..4} :
     \A n \in Issued : calls[n].req.ts # JNum(ts)}

OtpNonce ==
  /\ InFlight = {}
  /\ OtpDue = {}
  /\ OtpSteady
  /\ OtpFresh # {}
  /\ LET next == CHOOSE ts \in OtpFresh : \A other \in OtpFresh : ts <= other
     IN Receive(NonceRequest(Shop, Widget, next))

\* the proof of the issued nonce is submitted with the code of the current
\* time step, of a step near it, of another merchant, or with no code
OtpProof ==
  /\ InFlight = {}
  /\ \E n \in OtpDue :
       \/ \E steps \in -2..2 : Receive(VerifyRequest(n, "otp", now + steps * 30000))
       \/ \E code \in {"", Totp(Rival(Shop).otpSecretHex, Floor(Floor(now, 1000), 30))} :
            Receive([VerifyRequest(n, "otp", now) EXCEPT !.otpCode = code])

OtpTick ==
  /\ OtpDue = {}
  /\ Tick

NextOtp ==
  \/ OtpNonce
  \/ OtpProof
  \/ RedisExec
  \/ \E i \in DOMAIN calls : Resume(i)
  \/ OtpTick

InitOtp == InitWith({parseMerchants(DEFAULT_MERCHANTS)})

SpecOtp == InitOtp /\ [][NextOtp]_vars

(***************************************************************************)
(* One checkout whose proof is a platform assertion or a device proof that *)
(* may differ from the SDK's in any of its parts                           *)
(***************************************************************************)
WebAuthnFaults == {"type", "origin", "challenge", "rpid", "up", "uv"}
WebAuthnShapes == {"whole", "absent", "partial", "garbled"}

\* the assertion a, whole or cut short, with the parts named in faults changed
Forge(a, shape, faults) ==
  IF shape = "absent" THEN NoWebAuthn
  ELSE [present |-> TRUE, complete |-> shape # "partial",
        clientData |->
          [parses |-> shape # "garbled",
           type |-> IF "type" \in faults THEN "webauthn.create" ELSE a.clientData.type,
           origin |-> IF "origin" \in faults THEN "http://evil.example"
                      ELSE a.clientData.origin,
           challenge |-> IF "challenge" \in faults THEN Junk ELSE a.clientData.challenge],
        authData |->
          [rpIdHash |-> IF "rpid" \in faults THEN sha256("evil.example")
                        ELSE a.authData.rpIdHash,
           flags |-> (a.authData.flags \ (IF "up" \in faults THEN {"UP"} ELSE {}))
                       \ (IF "uv" \in faults THEN {"UV"} ELSE {})]]

DeviceFaults ==
  {"none", "absent", "hash", "noProof", "proofJunk", "proofRival", "hashAndProof",
   "hashNoProof", "platform", "headerLanguage", "noLanguage"}

\* the request req of a checkout at `merchant` with its device proof changed
Tamper(req, fault, merchant) ==
  CASE fault = "absent" -> [req EXCEPT !.device = NoDevice]
    [] fault = "hash" -> [req EXCEPT !.device.deviceHash = Junk]
    [] fault = "noProof" -> [req EXCEPT !.device.proof = NoEnc]
    [] fault = "proofJunk" -> [req EXCEPT !.device.proof = Junk]
    [] fault = "proofRival" -> [req EXCEPT !.device = DeviceProof(Rival(merchant), req)]
    [] fault = "hashAndProof" ->
         [req EXCEPT !.device.deviceHash = Junk, !.device.proof = Junk]
    [] fault = "hashNoProof" ->
         [req EXCEPT !.device.deviceHash = Junk, !.device.proof = NoEnc]
    [] fault = "platform" -> [req EXCEPT !.uaHints.platform = "MacIntel"]
    [] fault = "headerLanguage" ->
         [req EXCEPT !.uaHints.language = "", !.hAcceptLanguage = Hints.language]
    [] fault = "noLanguage" -> [req EXCEPT !.uaHints.language = ""]
    [] OTHER -> req

FactorNonce ==
  /\ calls = <<>>
  /\ \E merchant \in Merchants, intent \in Intents :
       Receive(NonceRequest(merchant, intent, now))

FactorProof ==
  /\ InFlight = {}
  /\ VerifyCalls = {}
  /\ \E n \in Issued :
       LET merchant == getMerchantById(merchantsCache, calls[n].m)
       IN \/ \E shape \in WebAuthnShapes, rpId \in {"", "evil.example"} :
               \E faults \in IF shape = "whole" THEN SUBSET WebAuthnFaults ELSE {{}} :
               Receive([VerifyRequest(n, "webauthn", now) EXCEPT
                          !.webauthn = Forge(@, shape, faults), !.rpId = rpId])
          \/ \E fault \in DeviceFaults :
               Receive(Tamper(VerifyRequest(n, "device", now), fault, merchant))

NextFactor ==
  \/ FactorNonce
  \/ FactorProof
  \/ RedisExec
  \/ \E i \in DOMAIN calls : Resume(i)

InitFactor == InitWith(Registries)

SpecFactor == InitFactor /\ [][NextFactor]_vars

(***************************************************************************)
(* Checkouts whose proof is submitted with any method, sound or not, and   *)
(* then submitted again                                                    *)
(***************************************************************************)
\* the submissions made for issuance n
ProofsOf(n) ==
  {i \in VerifyCalls : calls[i].req.visualNonceSig = calls[n].resp.sig}

\* the shop asks for a nonce for each of its intents
ConsumeNonce ==
  /\ InFlight = {}
  /\ VerifyCalls = {}
  /\ NonceCalls \subseteq Issued
  /\ \E intent \in Intents \ {IntentOf(calls[n].req.intentHash) : n \in Issued} :
       Receive(NonceRequest(Shop, intent, now))

\* the first submission for a nonce, with any method and a sound or unsound
\* factor; the nonces are used in the order of their issuance
ConsumeFirst ==
  /\ InFlight = {}
  /\ \E n \in Issued, method \in Methods \cup {"sms"}, v \in {"none", "factorBad"} :
       /\ ProofsOf(n) = {}
       /\ \A earlier \in Issued : earlier < n => ProofsOf(earlier) # {}
       /\ Receive(Vary(VerifyRequest(n, method, now), v, Shop, now))

\* the second submission for a nonce, with a sound factor
ConsumeAgain ==
  /\ InFlight = {}
  /\ \A n \in Issued : ProofsOf(n) # {}
  /\ \E n \in Issued, method \in {"webauthn", "device"} :
       /\ \E i \in Answered : ProofsOf(n) = {i}
       /\ Receive(VerifyRequest(n, method, now))

\* time passes between the first submissions and the second ones
ConsumeTick ==
  /\ VerifyCalls # {}
  /\ \A n \in Issued : Cardinality(ProofsOf(n)) = 1
  /\ Tick

NextConsume ==
  \/ ConsumeNonce
  \/ ConsumeFirst
  \/ ConsumeAgain
  \/ RedisExec
  \/ \E i \in DOMAIN calls : Resume(i)
  \/ TimerFire
  \/ ConsumeTick

InitConsume == InitWith(Registries)

SpecConsume == InitConsume /\ [][NextConsume]_vars

(***************************************************************************)
(* One issuance, and a submission made out for any merchant that is sound  *)
(* in everything but, possibly, the signature it carries                   *)
(***************************************************************************)
\* POST /verify for `intent` at `target` with timestamp ts, naming the
\* merchant or not, its nonce, hash and assertion derived as the SDK derives
\* them, carrying the signature sig
Crafted(target, named, intent, ts, sig) ==
  LET nonce == [NonceRequest(target, intent, ts) EXCEPT
                  !.merchantId = IF named THEN @ ELSE ""]
      origin == OriginOf(ParseUrl(nonce.domain))
      vnBytes == computeVisualNonceBytes(nonce.merchantId, origin, ToNumber(nonce.ts),
                                         nonce.intentHash)
      base == [nonce EXCEPT
                 !.ep = "verify", !.domain = origin,
                 !.hasIntent = TRUE, !.intent = intent,
                 !.visualNonce = toBase64Url(vnBytes),
                 !.visualNonceHash = toBase64Url(sha256(vnBytes)),
                 !.visualNonceSig = sig,
                 !.method = "webauthn", !.uaHints = Hints,
                 !.hOrigin = origin, !.hUserAgent = UserAgent]
  IN [base EXCEPT !.webauthn = Assertion(base)]

IssueNonce ==
  /\ calls = <<>>
  /\ \E merchant \in Merchants, named \in BOOLEAN :
       Receive([NonceRequest(merchant, Widget, now) EXCEPT
                  !.merchantId = IF named THEN @ ELSE ""])

IssueProof ==
  /\ InFlight = {}
  /\ VerifyCalls = {}
  /\ \E n \in Issued, target \in Merchants, named \in BOOLEAN, intent \in Intents,
        ts \in {now, now - 1000}, forged \in BOOLEAN :
       Receive(Crafted(target, named, intent, ts,
                       IF forged THEN Junk ELSE calls[n].resp.sig))

NextIssue ==
  \/ IssueNonce
  \/ IssueProof
  \/ RedisExec
  \/ \E i \in DOMAIN calls : Resume(i)

InitIssue == InitWith(Registries)

SpecIssue == InitIssue /\ [][NextIssue]_vars

(***************************************************************************)
(* The legacy route POST /api/verify                                       *)
(***************************************************************************)
\* the merchants table and the MERCHANT_<ID>_ORIGIN environment of the legacy
\* route
LegacyMerchants ==
  [public_key |-> [m \in {"test-merchant"} |-> "test-merchant-key"],
   origin |-> [m \in {"test-merchant"} |-> "https://test-merchant.com"]]

LegacyNonces == {"9f86d081", "60303ae2"}

\* /^[a-f0-9]{64}$/ on the nonces that are sent
NonceFormatOk(nonce) == nonce \in LegacyNonces

LegacyReply(status, verified, error) ==
  [status |-> status, verified |-> verified, error |-> error]

\* the string that verifySignature hashes: the sorted top-level keys of the
\* payload (the replacer array drops the keys of payment_intent)
payloadString(req) ==
  "{merchant_id:" \o req.merchant_id \o ",nonce:" \o req.nonce
    \o ",origin:" \o req.origin \o ",payment_intent:{},timestamp:"
    \o ToString(req.timestamp) \o "}"

getMerchantPublicKey(db, merchant_id) ==
  IF merchant_id \in DOMAIN db.public_key THEN db.public_key[merchant_id] ELSE ""

verifySignature(db, req) ==
  LET merchantKey == getMerchantPublicKey(db, req.merchant_id)
  IN IF merchantKey = "" THEN FALSE
     ELSE req.signature = Sign(merchantKey, sha256(payloadString(req)))

\* validateNonce once its reads of the store have settled: `used` is the
\* value of nonce:<nonce>; nothing writes nonce_timestamp:<nonce>
validateNonce(used, nonce) ==
  IF used THEN FALSE
  ELSE IF ~NonceFormatOk(nonce) THEN FALSE
  ELSE TRUE

expectedOrigin(db, merchant_id) ==
  IF merchant_id \in DOMAIN db.origin THEN db.origin[merchant_id] ELSE ""

nonceKey(nonce) == "nonce:" \o nonce

\* the requests of the legacy clients at clock `at`
LegacyHonest(at, nonce) ==
  LET unsigned == [merchant_id |-> "test-merchant",
                   origin |-> "https://test-merchant.com", nonce |-> nonce,
                   signature |-> "", timestamp |-> Floor(at, 1000)]
  IN [unsigned EXCEPT !.signature =
        Sign("test-merchant-key", sha256(payloadString(unsigned)))]

LegacyRequests(at) ==
  LET honest == LegacyHonest(at, "9f86d081")
      moved == [honest EXCEPT !.origin = "https://malicious-site.com"]
  IN {honest,
      LegacyHonest(at, "60303ae2"),
      [honest EXCEPT !.signature = "test-signature"],
      [moved EXCEPT !.signature = "test-signature"],
      [moved EXCEPT !.signature =
         Sign("test-merchant-key", sha256(payloadString(moved)))],
      [honest EXCEPT !.nonce = "test-nonce-123"],
      [honest EXCEPT !.timestamp = @ - 400],
      [honest EXCEPT !.signature = ""]}

LegacyAnswer(i, resp) ==
  calls' = [calls EXCEPT ![i].pc = "done", ![i].resp = resp]

\* a request arrives: the handler checks the fields and the timestamp and
\* awaits validateNonce
LegacyReceive(req) ==
  /\ Len(calls) < MaxCalls
  /\ LET nowSec == Floor(now, 1000)
         call == [req |-> req, at |-> now, pc |-> "validateNonce",
                  resp |-> LegacyReply(0, "", "")]
     IN calls' = Append(calls,
          IF \/ req.merchant_id = "" \/ req.origin = "" \/ req.nonce = ""
             \/ req.signature = "" \/ req.timestamp = 0
          THEN [call EXCEPT !.pc = "done",
                  !.resp = LegacyReply(400, "false", "Missing required fields")]
          ELSE IF Abs(nowSec - req.timestamp) > 300
          THEN [call EXCEPT !.pc = "done",
                  !.resp = LegacyReply(400, "false", "Timestamp too old")]
          ELSE call)
  /\ UNCHANGED <<now, backend, merchantsCache, memoryCache, timers, redisKeys,
                 redisQueue, sdk>>

\* validateNonce settles; a failure of the store is caught inside it
LegacyNonceValidated(i) ==
  /\ i \in DOMAIN calls /\ calls[i].pc = "validateNonce"
  /\ \E storeOk \in BOOLEAN :
       LET used == nonceKey(calls[i].req.nonce) \in DOMAIN redisKeys
           nonceValid == storeOk /\ validateNonce(used, calls[i].req.nonce)
       IN IF nonceValid
          THEN calls' = [calls EXCEPT ![i].pc = "verifySignature"]
          ELSE LegacyAnswer(i, LegacyReply(400, "false", "Invalid nonce"))
  /\ UNCHANGED <<now, backend, merchantsCache, memoryCache, timers, redisKeys,
                 redisQueue, sdk>>

\* verifySignature settles; the origin is compared after it
LegacySignatureVerified(i) ==
  /\ i \in DOMAIN calls /\ calls[i].pc = "verifySignature"
  /\ LET req == calls[i].req
         expected == expectedOrigin(merchantsCache, req.merchant_id)
     IN IF ~verifySignature(merchantsCache, req)
        THEN LegacyAnswer(i, LegacyReply(400, "false", "Invalid signature"))
        ELSE IF expected # "" /\ req.origin # expected
        THEN LegacyAnswer(i, LegacyReply(400, "false", "Origin mismatch"))
        ELSE calls' = [calls EXCEPT ![i].pc = "setex"]
  /\ UNCHANGED <<now, backend, merchantsCache, memoryCache, timers, redisKeys,
                 redisQueue, sdk>>

\* redis.setex settles: the nonce is marked and the request is verified, or
\* the catch block answers
LegacyNonceMarked(i) ==
  /\ i \in DOMAIN calls /\ calls[i].pc = "setex"
  /\ \E storeOk \in BOOLEAN :
       IF storeOk
       THEN /\ redisKeys' = Put(redisKeys, nonceKey(calls[i].req.nonce),
                                [val |-> "used", exp |-> now + 300 * 1000])
            /\ LegacyAnswer(i, LegacyReply(200, "true", ""))
       ELSE /\ redisKeys' = redisKeys
            /\ LegacyAnswer(i, LegacyReply(500, "false", "Verification failed"))
  /\ UNCHANGED <<now, backend, merchantsCache, memoryCache, timers,
                 redisQueue, sdk>>

NextLegacy ==
  \/ \E req \in LegacyRequests(now) : LegacyReceive(req)
  \/ \E i \in DOMAIN calls : LegacyNonceValidated(i)
  \/ \E i \in DOMAIN calls : LegacySignatureVerified(i)
  \/ \E i \in DOMAIN calls : LegacyNonceMarked(i)

InitLegacy ==
  /\ now = StartMs
  /\ backend = "redis"
  /\ merchantsCache = LegacyMerchants
  /\ memoryCache = <<>>
  /\ timers = {}
  /\ redisKeys = <<>>
  /\ redisQueue = <<>>
  /\ calls = <<>>
  /\ sdk = NoSdk

SpecLegacy == InitLegacy /\ [][NextLegacy]_vars

\* the legacy calls that were answered verified: true
LegacyVerified == {i \in DOMAIN calls : calls[i].resp.verified = "true"}

(***************************************************************************)
(* The legacy SDK: verifyPayment (src/unnamed/part_004)                    *)
(***************************************************************************)
\* the awaits of verifyPayment, in order
VerifyPaymentSteps ==
  <<"generateVisualNonce", "generateChallenge", "requestWebAuthnAuth",
    "createSignedPayload", "sendVerificationRequest">>

PaymentsRunning ==
  {f \in DOMAIN sdk.payments : sdk.payments[f].pc \in DOMAIN VerifyPaymentSteps}

\* verifyPayment is called: the guard and the first await.  The guard throws
\* inside the try block, so the catch block runs for it as well
verifyPayment ==
  /\ Len(sdk.payments) < MaxCalls
  /\ sdk' =
       IF sdk.verificationInProgress
       THEN [sdk EXCEPT !.verificationInProgress = FALSE,
               !.payments = Append(@, [pc |-> 0, busy |-> PaymentsRunning # {},
                                       error |-> "Verification already in progress"])]
       ELSE [sdk EXCEPT !.verificationInProgress = TRUE,
               !.payments = Append(@, [pc |-> 1, busy |-> PaymentsRunning # {},
                                       error |-> ""])]
  /\ UNCHANGED gatewayVars

\* the promise that call f awaits settles
verifyPaymentResume(f) ==
  /\ f \in PaymentsRunning
  /\ \E fulfilled \in BOOLEAN :
       LET at == sdk.payments[f].pc
       IN sdk' =
            IF ~fulfilled
            THEN [sdk EXCEPT !.verificationInProgress = FALSE,
                    !.payments[f] = [@ EXCEPT !.pc = 0, !.error = VerifyPaymentSteps[at]]]
            ELSE IF at = Len(VerifyPaymentSteps)
            THEN [sdk EXCEPT !.verificationInProgress = FALSE,
                    !.payments[f] = [@ EXCEPT !.pc = 0]]
            ELSE [sdk EXCEPT !.payments[f] = [@ EXCEPT !.pc = at + 1]]
  /\ UNCHANGED gatewayVars

NextPayment ==
  \/ verifyPayment
  \/ \E f \in DOMAIN sdk.payments : verifyPaymentResume(f)

InitPayment ==
  /\ now = StartMs
  /\ backend = "redis"
  /\ merchantsCache = LegacyMerchants
  /\ memoryCache = <<>>
  /\ timers = {}
  /\ redisKeys = <<>>
  /\ redisQueue = <<>>
  /\ calls = <<>>
  /\ sdk = [verificationInProgress |-> FALSE, payments |-> <<>>]

SpecPayment == InitPayment /\ [][NextPayment]_vars

(***************************************************************************)
(* C1  ReplayGuard claim-once.  For every key, among the setOnce calls     *)
(* applied before the TTL of a successful claim has run out, the           *)
(* successful claim is the only one that returned true; and a call         *)
(* returns false only when such a successful claim precedes it.  Both      *)
(* backends.                                                               *)
(***************************************************************************)
C1_ClaimOnce ==
  /\ \A a, b \in SetOnceOps :
       ( /\ a # b
         /\ OpAt(a).key = OpAt(b).key
         /\ OpAt(a).res = "true"
         /\ WithinTtl(OpAt(a), OpAt(b)) ) => OpAt(b).res = "false"
  /\ \A b \in SetOnceOps :
       OpAt(b).res = "false" =>
         \E a \in SetOnceOps :
           /\ a # b
           /\ OpAt(a).key = OpAt(b).key
           /\ OpAt(a).res = "true"
           /\ OpAt(a).at <= OpAt(b).at
           /\ OpAt(b).at <= OpAt(a).at + OpAt(a).ttl * 1000

\* two handlers wait on the same key at once: one claim succeeded, one failed
C1_Witness ==
  \E i, j \in InFlight :
    /\ i # j
    /\ Claimed(i) /\ Claiming(j) /\ ~Claimed(j)
    /\ calls[i].ops[1].key = calls[j].ops[1].key

(***************************************************************************)
(* C2  Proof replay.  When a fully valid proof (every gate other than the  *)
(* replay gate passes) claims its proof-replay key, it is answered         *)
(* verified:true, and every other submission of the same proof (same       *)
(* resolved merchant, same nonce hash) that reaches the replay gate        *)
(* within the merchant's replay TTL is answered verified:false, `replay`.  *)
(***************************************************************************)
C2_ProofReplay ==
  \A i, j \in VerifyCalls \cap Answered :
    ( /\ i # j
      /\ SameProof(i, j)
      /\ Claimed(i) /\ Claiming(j)
      /\ WithinTtl(calls[i].ops[1], calls[j].ops[1])
      /\ StepUpSatisfied(i) /\ VelocitySatisfied(i) /\ FactorAccepted(i) )
    => VerifiedTrue(i) /\ RejectedWith(j, "replay")

\* the same proof was submitted twice, the second time at a later clock value
C2_Witness ==
  \E i, j \in VerifyCalls \cap Answered :
    /\ i # j /\ SameProof(i, j)
    /\ VerifiedTrue(i) /\ RejectedWith(j, "replay")
    /\ calls[j].at > calls[i].at

(***************************************************************************)
(* C3  A visual nonce is single-use: the same (merchant, visualNonceHash)  *)
(* is answered verified:true at most once, whatever the clock does.        *)
(***************************************************************************)
C3_SingleUse ==
  \A i, j \in VerifyCalls :
    (i # j /\ SameProof(i, j)) => ~(VerifiedTrue(i) /\ VerifiedTrue(j))

(***************************************************************************)
(* C4  Nonce issuance replay.  After POST /nonce has issued a signature,   *)
(* every other POST /nonce request that resolves to the same merchant,     *)
(* carries the same ts and intentHash and reaches the issuance claim       *)
(* within the merchant's replay TTL is answered HTTP 400 `nonce_replay`    *)
(* and carries no signature.                                               *)
(***************************************************************************)
C4_NonceReplay ==
  \A i, j \in NonceCalls \cap Answered :
    ( /\ i # j
      /\ calls[i].resp.status = 200
      /\ calls[i].m = calls[j].m
      /\ calls[i].req.ts = calls[j].req.ts
      /\ calls[i].req.intentHash = calls[j].req.intentHash
      /\ Claiming(j)
      /\ WithinTtl(calls[i].ops[1], calls[j].ops[1]) )
    => /\ calls[j].resp.status = 400
       /\ calls[j].resp.reason = "nonce_replay"
       /\ calls[j].resp.sig = NoEnc

\* a second request for an issued nonce was rejected at a later clock value
C4_Witness ==
  \E i, j \in NonceCalls \cap Answered :
    /\ calls[i].resp.status = 200 /\ Present(calls[i].resp.sig)
    /\ calls[i].m = calls[j].m /\ calls[i].req.ts = calls[j].req.ts
    /\ calls[j].resp.reason = "nonce_replay"
    /\ calls[j].at > calls[i].at

(***************************************************************************)
(* C5  Intent tampering, as stated: a POST /verify request that passes     *)
(* every gate before the intent-hash gate and whose `intent` differs in    *)
(* any way (value or representation) from the intent its `intentHash` was  *)
(* computed from is rejected with `intent_mismatch`.                       *)
(***************************************************************************)
HashedIntent(i) == IntentOf(calls[i].req.intentHash)

C5_AnyChange ==
  \A i \in VerifyCalls \cap Answered :
    (PassesBefore(i, "intent hash") /\ calls[i].req.intent # HashedIntent(i))
      => RejectedWith(i, "intent_mismatch")

(***************************************************************************)
(* C5  Intent tampering, amended: a POST /verify request that passes every *)
(* gate before the intent-hash gate is rejected with `intent_mismatch`     *)
(* exactly when the canonical string of its `intent` differs from the      *)
(* canonical string its `intentHash` was computed from.                    *)
(***************************************************************************)
C5_CanonicalChange ==
  \A i \in VerifyCalls \cap Answered :
    PassesBefore(i, "intent hash") =>
      ( RejectedWith(i, "intent_mismatch")
          <=> canonicalIntent(calls[i].req.intent) # canonicalIntent(HashedIntent(i)) )

\* a changed description reached the intent-hash gate and was turned down
C5_Witness ==
  \E i \in VerifyCalls \cap Answered :
    /\ PassesBefore(i, "intent hash")
    /\ calls[i].req.intent.description # HashedIntent(i).description
    /\ RejectedWith(i, "intent_mismatch")

(***************************************************************************)
(* C6  Step-up policy: for every merchant and every stepUpAmount >= 0, a   *)
(* POST /verify request that passes every gate before the step-up gate,    *)
(* whose amount is at or above stepUpAmount and whose method is not        *)
(* `webauthn` is rejected with `policy_requires_webauthn`.                 *)
(***************************************************************************)
C6_StepUp ==
  \A i \in VerifyCalls \cap Answered :
    LET amount == ToNumber(OrElse(calls[i].req.intent.amount, JNum(0)))
    IN ( /\ PassesBefore(i, "step-up")
         /\ IsFinite(amount)
         /\ amount.n >= Resolved(i).riskRules.stepUpAmount
         /\ calls[i].req.method # "webauthn" )
       => RejectedWith(i, "policy_requires_webauthn")

(***************************************************************************)
(* C7  Origin binding: a POST /verify request that is valid in every other *)
(* field and whose Origin header differs from the origin of its `domain`   *)
(* is rejected with `origin_mismatch`, with or without a merchantId and    *)
(* whatever merchant the Origin header value belongs to.                   *)
(***************************************************************************)
C7_OriginBinding ==
  \A i \in VerifyCalls \cap Answered :
    ( /\ calls[i].req.hOrigin \notin {"", OriginOf(ParseUrl(calls[i].req.domain))}
      /\ OriginOnlyDiffers(i) )
    => RejectedWith(i, "origin_mismatch")

(***************************************************************************)
(* C8  Velocity limiting, as stated: a POST /verify request that reaches   *)
(* the velocity gate when at least maxAttempts requests of the same        *)
(* merchant reached it earlier, less than windowSeconds ago, is rejected   *)
(* with `velocity_exceeded`.                                               *)
(***************************************************************************)
C8_AnySpan ==
  \A j \in AtVelocityGate :
    LET before == {i \in AtVelocityGate :
                     /\ calls[i].m = calls[j].m
                     /\ CountedAt(i) < CountedAt(j)
                     /\ CountedAt(j) - CountedAt(i) < VelocityOf(j).windowSeconds * 1000}
    IN Cardinality(before) >= VelocityOf(j).maxAttempts
         => /\ StoreResult(j, 2) = "false"
            /\ j \in Answered => RejectedWith(j, "velocity_exceeded")

(***************************************************************************)
(* C8  Velocity limiting, amended: time is cut into consecutive windows of *)
(* windowSeconds (window number floor(now / 1000 / windowSeconds)); of the *)
(* POST /verify requests of a merchant that reach the velocity gate in one *)
(* window, the first maxAttempts pass it and every further one is rejected *)
(* with `velocity_exceeded`; each window counts from zero.                 *)
(***************************************************************************)
C8_Window ==
  \A i \in AtVelocityGate :
    LET same == {j \in AtVelocityGate : /\ calls[j].m = calls[i].m
                                        /\ WindowBucket(j) = WindowBucket(i)}
        passed == {j \in same : StoreResult(j, 2) = "true"}
    IN /\ Cardinality(passed) = Min(Cardinality(same), VelocityOf(i).maxAttempts)
       /\ (i \in Answered /\ StoreResult(i, 2) = "false")
            => RejectedWith(i, "velocity_exceeded")

\* two proofs were counted in one window at different clock values: the first
\* passed, the second was turned down
C8_Witness ==
  \E i, j \in AtVelocityGate \cap Answered :
    /\ calls[i].m = calls[j].m
    /\ WindowBucket(i) = WindowBucket(j)
    /\ CountedAt(i) < CountedAt(j)
    /\ VerifiedTrue(i)
    /\ RejectedWith(j, "velocity_exceeded")

(***************************************************************************)
(* C9  Fail-fast gate order of POST /verify: a request is answered with    *)
(* the reason of the earliest gate, in the listed order, that turns it     *)
(* down, and the handler has issued no store operation of a later gate; a  *)
(* request that no gate turns down is answered verified:true.              *)
(***************************************************************************)
C9_GateOrder ==
  \A i \in VerifyCalls \cap Answered :
    IF FailingGates(i) = {}
    THEN /\ VerifiedTrue(i)
         /\ Len(calls[i].ops) = OpsUpTo(i, Len(GateOrder) + 1)
    ELSE LET k == FirstIndex(FailingGates(i))
         IN /\ calls[i].resp.verified = "false"
            /\ calls[i].resp.reason = GateVerdict(i, GateOrder[k])
            /\ Len(calls[i].ops) = OpsUpTo(i, k)

\* a replayed proof whose amount also calls for step-up was answered `replay`
C9_Witness ==
  \E i \in VerifyCalls \cap Answered :
    /\ ~Passes(i, "proof replay")
    /\ ~Passes(i, "step-up")
    /\ RejectedWith(i, "replay")
    /\ Len(calls[i].ops) = OpsUpTo(i, GateIndex("proof replay"))

(***************************************************************************)
(* C10  Soundness of a positive verdict: a verified:true response implies  *)
(* that the timestamp was within the skew window, the domain is in the     *)
(* resolved merchant's allowed sets, the Origin header (if present) equals *)
(* the domain, the intent hash, nonce bytes and nonce hash recompute to    *)
(* the claimed ones, the signature verifies under the resolved merchant's  *)
(* key, the proof-replay key was claimed by this request, the step-up rule *)
(* and the velocity limit were satisfied and the method's verifier         *)
(* returned ok.                                                            *)
(***************************************************************************)
C10_Soundness ==
  \A i \in VerifyCalls :
    VerifiedTrue(i) =>
      /\ Passes(i, "timestamp skew")
      /\ Resolved(i).merchantId = calls[i].m
      /\ \/ OriginOf(ParseUrl(calls[i].req.domain)) \in Resolved(i).allowedOrigins
         \/ ParseUrl(calls[i].req.domain).host \in Resolved(i).allowedHosts
      /\ Passes(i, "origin header")
      /\ Passes(i, "intent hash")
      /\ Passes(i, "nonce")
      /\ Claimed(i)
      /\ StepUpSatisfied(i)
      /\ VelocitySatisfied(i)
      /\ FactorAccepted(i)

(***************************************************************************)
(* C11  Merchant id and network identity must agree: a POST /nonce or POST *)
(* /verify request that reaches merchant resolution, names a registered    *)
(* merchant and carries a domain outside that merchant's allowed origins   *)
(* and hosts is rejected with a merchant-mismatch error (HTTP 400 without  *)
(* a signature on /nonce; verified:false with `merchant_mismatch` or       *)
(* `domain_mismatch` on /verify).                                          *)
(***************************************************************************)
C11_IdentityAgrees ==
  \A i \in Answered :
    IdentityDisagrees(i) =>
      IF calls[i].req.ep = "nonce"
      THEN NonceWellFormed(i) =>
             calls[i].resp.status = 400 /\ calls[i].resp.sig = NoEnc
      ELSE PassesBefore(i, "merchant resolution") =>
             \/ RejectedWith(i, "merchant_mismatch")
             \/ RejectedWith(i, "domain_mismatch")

(***************************************************************************)
(* C12  Timestamp skew, as stated: a POST /nonce or POST /verify request   *)
(* that passes the checks before the skew check is answered `stale_ts`     *)
(* (HTTP 400 on /nonce, verified:false on /verify) exactly when            *)
(* |now - ts| exceeds 120 000 ms or ts is not a finite number.             *)
(***************************************************************************)
C12_SkewAsStated ==
  \A i \in Answered :
    IF calls[i].req.ep = "nonce"
    THEN (calls[i].req.domain # "" /\ Present(calls[i].req.intentHash))
           => (StaleAnswer(i) <=> OutOfSkew(i))
    ELSE PassesBefore(i, "timestamp skew") => (StaleAnswer(i) <=> OutOfSkew(i))

(***************************************************************************)
(* C12  Timestamp skew, amended: POST /verify answers `stale_ts` exactly   *)
(* when |now - ts| exceeds 120 000 ms or ts is not a finite number; POST   *)
(* /nonce answers HTTP 400 `stale_ts` exactly when ts is a finite number   *)
(* and |now - ts| exceeds 120 000 ms, and HTTP 400 `invalid_request` when  *)
(* ts is not a finite number; on /nonce a request so rejected resolves no  *)
(* merchant, claims no issuance key and gets no signature.                 *)
(***************************************************************************)
C12_Skew ==
  \A i \in Answered :
    LET finite == IsFinite(ToNumber(calls[i].req.ts))
    IN IF calls[i].req.ep = "nonce"
       THEN (calls[i].req.domain # "" /\ Present(calls[i].req.intentHash)) =>
              /\ StaleAnswer(i) <=> (finite /\ OutOfSkew(i))
              /\ ~finite => /\ calls[i].resp.status = 400
                            /\ calls[i].resp.reason = "invalid_request"
              /\ OutOfSkew(i) => /\ calls[i].m = ""
                                 /\ calls[i].ops = <<>>
                                 /\ calls[i].resp.sig = NoEnc
       ELSE PassesBefore(i, "timestamp skew") => (StaleAnswer(i) <=> OutOfSkew(i))

\* both endpoints have accepted a timestamp exactly 120 000 ms from the clock
C12_Witness ==
  /\ \E i \in NonceCalls \cap Answered :
       /\ calls[i].resp.status = 200
       /\ calls[i].req.ts = JNum(calls[i].at + TIMESTAMP_SKEW_MS)
  /\ \E i \in VerifyCalls \cap Answered :
       /\ ~OutOfSkew(i) /\ ~StaleAnswer(i)
       /\ calls[i].req.ts = JNum(calls[i].at - TIMESTAMP_SKEW_MS)

(***************************************************************************)
(* C13  Nonce derivation agrees.  For every merchantId (absent, null,      *)
(* empty or a name), page origin, timestamp and intent hash, the bytes of  *)
(* the SDK's computeVisualNonce, the bytes POST /nonce derives from the    *)
(* SDK's request and the bytes POST /verify recomputes from the SDK's      *)
(* payload are the same, and a second derivation from the same inputs      *)
(* gives the same bytes.                                                   *)
(***************************************************************************)
C13_NonceAgrees ==
  /\ sdk.atNonce.done => sdk.atNonce.vnBytes = sdk.client.vnBytes
  /\ sdk.atVerify.done => sdk.atVerify.vnBytes = sdk.client.vnBytes
  /\ sdk.again.done => sdk.again = sdk.client

\* all three derivations were made for an SDK without a merchantId
C13_Witness ==
  /\ sdk.client.done /\ sdk.again.done /\ sdk.atNonce.done /\ sdk.atVerify.done
  /\ sdk.merchantId = JNull
  /\ sdk.client.vnBytes =
       sha256("|http://localhost:3001|" \o ToString(StartMs) \o "|"
              \o EncText(sdk.client.intentHash))

(***************************************************************************)
(* C14  Canonical intent.  For every intent whose amount is a number, a    *)
(* numeric string or absent, with or without currency, description and     *)
(* references, the canonical string the SDK hashes and the canonical       *)
(* string POST /verify builds from the intent of the SDK's payload are the *)
(* same string amount|UPPERCASE(currency)|description|reference, and so    *)
(* are the two hashes; amount 2500, currency "usd", description "Widget",  *)
(* merchant_reference "ref-1" gives 2500|USD|Widget|ref-1 on both sides.   *)
(***************************************************************************)
C14_CanonicalAgrees ==
  /\ sdk.atVerify.done =>
       /\ sdk.atVerify.canonical = sdk.client.canonical
       /\ sdk.atVerify.intentHash = sdk.client.intentHash
  /\ ( /\ sdk.client.done /\ sdk.intent.amount.k = "num"
       /\ sdk.intent.currency # "" /\ sdk.intent.merchant_reference # "" ) =>
       sdk.client.canonical =
         ToString(sdk.intent.amount.n) \o "|" \o ToUpperCase(sdk.intent.currency)
           \o "|" \o sdk.intent.description \o "|" \o sdk.intent.merchant_reference
  /\ (sdk.client.done /\ sdk.intent = Widget) =>
       sdk.client.canonical = "2500|USD|Widget|ref-1"

\* both sides have derived 2500|USD|Widget|ref-1 from the intent of the example
C14_Witness ==
  /\ sdk.intent = Widget
  /\ sdk.client.done /\ sdk.atVerify.done
  /\ sdk.atVerify.canonical = "2500|USD|Widget|ref-1"

(***************************************************************************)
(* C15  Fallback chain.  In every authenticateAndVerify flow each factor   *)
(* is attempted at most once, the one-time code only after the platform    *)
(* authenticator has failed and the device proof only after the one-time   *)
(* code has failed; an attempt starts only when every earlier attempt has  *)
(* ended, none starts after a success, and the method of the request to    *)
(* /verify is the one factor that succeeded.                               *)
(***************************************************************************)
C15_FallbackChain ==
  \A f \in Flows :
    LET trace == sdk.flows[f].trace
        Starts(a) == At(f, a, "start")
        Ends(a) == {k \in DOMAIN trace : trace[k].e = a /\ trace[k].x # "start"}
        Succeeded == {k \in DOMAIN trace : trace[k].e \in Methods
                                           /\ trace[k].x = "succeeded"}
    IN /\ \A a \in Methods : Cardinality(Starts(a)) <= 1
       /\ \A k \in Starts("otp") : \E j \in At(f, "webauthn", "failed") : j < k
       /\ \A k \in Starts("device") : \E j \in At(f, "otp", "failed") : j < k
       /\ \A a \in Methods : \A k \in Starts(a) : \A j \in Succeeded : k < j
       /\ \A a \in Methods, b \in Methods :
            \A k \in Starts(a), j \in Starts(b) :
              j < k => \E e \in Ends(b) : e < k
       /\ \A k \in DOMAIN trace :
            trace[k].e = "POST /verify" =>
              /\ Succeeded # {}
              /\ \A j \in Succeeded : j < k /\ trace[j].e = trace[k].x
       /\ sdk.flows[f].result.verified =>
            \E j \in Succeeded : trace[j].e = sdk.flows[f].result.method

\* a flow went through all three factors and was verified by the device proof,
\* another was verified by the one-time code
C15_Witness ==
  /\ \E f \in Flows :
       /\ At(f, "webauthn", "failed") # {} /\ At(f, "otp", "failed") # {}
       /\ At(f, "device", "succeeded") # {}
       /\ sdk.flows[f].result = Returned(TRUE, "", "device")
  /\ \E f \in Flows :
       /\ At(f, "otp", "succeeded") # {}
       /\ sdk.flows[f].result = Returned(TRUE, "", "otp")

(***************************************************************************)
(* C16  A cancelled code prompt aborts the chain.  A flow whose one-time   *)
(* code prompt was cancelled has returned {verified: false, reason:        *)
(* 'otp_cancelled'}, has attempted no device proof and has sent nothing to *)
(* /verify.                                                                *)
(***************************************************************************)
C16_CancelAborts ==
  \A f \in Flows :
    At(f, "otp", "cancelled") # {} =>
      /\ sdk.flows[f].result = Returned(FALSE, "otp_cancelled", "")
      /\ ~Ever(f, "device")
      /\ ~Ever(f, "POST /verify")

C16_Witness ==
  \E f \in Flows :
    /\ At(f, "otp", "cancelled") # {}
    /\ sdk.flows[f].result.reason = "otp_cancelled"
    /\ ~sdk.verificationInProgress

(***************************************************************************)
(* C17  A declined consent aborts the chain.  A flow whose consent         *)
(* callback answered false or 'declined' has returned {verified: false,    *)
(* reason: 'user_declined_consent'}; it has opened no code prompt,         *)
(* attempted no device proof and sent nothing to /verify.                  *)
(***************************************************************************)
C17_DeclineAborts ==
  \A f \in Flows :
    (At(f, "consent", "false") # {} \/ At(f, "consent", "declined") # {}) =>
      /\ sdk.flows[f].result = Returned(FALSE, "user_declined_consent", "")
      /\ ~Ever(f, "otp")
      /\ ~Ever(f, "device")
      /\ ~Ever(f, "POST /verify")

\* one flow was declined with false and another with 'declined'
C17_Witness ==
  /\ \E f \in Flows : /\ At(f, "consent", "false") # {}
                      /\ sdk.flows[f].result.reason = "user_declined_consent"
  /\ \E f \in Flows : /\ At(f, "consent", "declined") # {}
                      /\ sdk.flows[f].result.reason = "user_declined_consent"

(***************************************************************************)
(* C18  In-flight guard.  At most one flow of the SDK instance is past the *)
(* guard and unfinished; a call that did not get past the guard returned   *)
(* {verified: false, reason: 'verification_in_progress'} and derived no    *)
(* nonce, called neither /nonce nor /verify and attempted no factor; and   *)
(* at most one flow started from the checkout button is unsettled, a click *)
(* on the processing button starting none.                                 *)
(***************************************************************************)
C18_InFlightGuard ==
  /\ Cardinality(ActiveFlows) <= 1
  /\ ActiveFlows # {} => sdk.verificationInProgress
  /\ \A f \in Flows :
       (sdk.webCrypto /\ sdk.flows[f].pc = "done" /\ ~sdk.flows[f].entered) =>
         /\ sdk.flows[f].result = Returned(FALSE, "verification_in_progress", "")
         /\ sdk.flows[f].trace = <<>>
  /\ \A f \in Flows :
       sdk.flows[f].result.reason = "verification_in_progress" =>
         ~sdk.flows[f].entered /\ sdk.flows[f].trace = <<>>
  /\ Cardinality({f \in Flows : sdk.flows[f].via = "button" /\ ~sdk.flows[f].settled}) <= 1
  /\ (\E f \in Flows : sdk.flows[f].via = "button" /\ ~sdk.flows[f].settled)
       <=> sdk.ghostpinProcessing

\* a call was turned away while a flow was at its code prompt, and a click on
\* the processing button was ignored
C18_Witness ==
  /\ \E f \in ActiveFlows : sdk.flows[f].pc = "otp"
  /\ \E f \in Flows : sdk.flows[f].result.reason = "verification_in_progress"
  /\ sdk.clickIgnored

(***************************************************************************)
(* C19  Network failure of the submission propagates.  A flow whose        *)
(* request to /verify failed or was aborted has thrown: it has no verdict, *)
(* it emitted no `verification` event, and the in-flight guard is not held *)
(* on its behalf (it is held only for a flow that is in flight, or for one *)
(* that threw while asking /nonce).                                        *)
(***************************************************************************)
C19_NetworkFailure ==
  \A f \in Flows :
    At(f, "network", "failed") # {} =>
      /\ sdk.flows[f].result = Thrown("network")
      /\ ~Ever(f, "emit")
      /\ sdk.verificationInProgress =>
           \E g \in Flows \ {f} :
             \/ g \in ActiveFlows
             \/ /\ sdk.flows[g].result.kind = "thrown"
                /\ sdk.flows[g].trace = <<Did("nonce", "derived"), Did("POST /nonce", "")>>

\* a submission failed on the network, the flow threw and the guard is free
C19_Witness ==
  \E f \in Flows :
    /\ At(f, "network", "failed") # {}
    /\ sdk.flows[f].result.kind = "thrown"
    /\ ~sdk.verificationInProgress

(***************************************************************************)
(* C20  Fail closed on store failure.  A request during which a setOnce    *)
(* failed is answered without a signature and without verified: true (HTTP *)
(* 500 `server_error`); a request during which a rateLimit failed is       *)
(* rejected, with `velocity_exceeded` when it was the velocity limit and    *)
(* with `otp_invalid_or_rate_limited` when it was a limit of the one-time  *)
(* code.                                                                   *)
(***************************************************************************)
C20_FailClosed ==
  \A i \in Answered :
    /\ FailedOps(i, "setOnce") # {} =>
         /\ calls[i].resp.status = 500
         /\ calls[i].resp.reason = "server_error"
         /\ calls[i].resp.sig = NoEnc
         /\ calls[i].resp.verified # "true"
    /\ \A k \in FailedOps(i, "rateLimit") :
         /\ calls[i].resp.sig = NoEnc
         /\ IF calls[i].ops[k].key = velocityKey(Resolved(i), calls[i].ops[k].at)
            THEN RejectedWith(i, "velocity_exceeded")
            ELSE RejectedWith(i, "otp_invalid_or_rate_limited")

\* an issuance whose claim failed was answered 500, and a later proof with a
\* valid one-time code whose rate limit failed was rejected
C20_Witness ==
  /\ \E i \in NonceCalls \cap Answered :
       FailedOps(i, "setOnce") # {} /\ calls[i].resp.status = 500
  /\ \E i \in VerifyCalls \cap Answered :
       /\ calls[i].req.method = "otp"
       /\ FailedOps(i, "rateLimit") # {}
       /\ FailedOps(i, "setOnce") = {}
       /\ RejectedWith(i, "otp_invalid_or_rate_limited")

(***************************************************************************)
(* C21  Status contract of POST /verify.  Every response is HTTP 200 with  *)
(* verified: true, the method, the policy and the proof; or HTTP 200 with  *)
(* verified: false and the reason of a business rejection; or HTTP 413     *)
(* `payload_too_large`; or HTTP 500 with verified: false and               *)
(* `server_error`.  A business reason never comes with another status      *)
(* than 200.                                                               *)
(***************************************************************************)
BusinessReasons ==
  { "missing_fields", "stale_ts", "invalid_domain", "unknown_merchant",
    "merchant_mismatch", "domain_mismatch", "origin_mismatch", "referer_mismatch",
    "invalid_referer", "forwarded_host_mismatch", "fetch_metadata_violation",
    "dns_attestation_failed", "intent_mismatch", "visual_nonce_mismatch",
    "visual_nonce_hash_mismatch", "visual_nonce_signature_invalid", "replay",
    "policy_requires_webauthn", "velocity_exceeded", "otp_invalid_or_rate_limited",
    "unsupported_method",
    "webauthn_payload_missing", "webauthn_fields_missing", "webauthn_type_invalid",
    "webauthn_origin_mismatch", "webauthn_challenge_mismatch",
    "webauthn_rpid_mismatch", "webauthn_flags_invalid", "webauthn_validation_error",
    "device_payload_missing", "device_hash_mismatch", "device_proof_missing",
    "device_proof_invalid" }

C21_StatusContract ==
  \A i \in VerifyCalls \cap Answered :
    LET resp == calls[i].resp
    IN /\ \/ /\ resp.status = 200 /\ resp.verified = "true" /\ resp.reason = ""
             /\ resp.method = calls[i].req.method /\ resp.method \in Methods
             /\ resp.policy = Resolved(i).riskRules.stepUpAmount
             /\ resp.nonceHash = calls[i].req.visualNonceHash
          \/ /\ resp.status = 200 /\ resp.verified = "false"
             /\ resp.reason \in BusinessReasons
          \/ /\ resp.status = 413 /\ resp.verified = "false"
             /\ resp.reason = "payload_too_large"
          \/ /\ resp.status = 500 /\ resp.verified = "false"
             /\ resp.reason = "server_error"
       /\ resp.reason \in BusinessReasons => resp.status = 200
       /\ resp.sig = NoEnc

\* a proof was verified and another request was answered 413
C21_Witness ==
  /\ \E i \in VerifyCalls \cap Answered : VerifiedTrue(i)
  /\ \E i \in VerifyCalls \cap Answered :
       calls[i].resp.status = 413 /\ calls[i].resp.reason = "payload_too_large"

(***************************************************************************)
(* C22  Legacy nonce reuse.  On POST /api/verify a nonce is verified at    *)
(* most once, also when requests with the same nonce are processed         *)
(* concurrently, and every request that carries a nonce an earlier request *)
(* has already submitted is answered 400 'Invalid nonce'.                  *)
(***************************************************************************)
C22_NonceOnce ==
  /\ \A i, j \in LegacyVerified : calls[i].req.nonce = calls[j].req.nonce => i = j
  /\ \A i \in Answered : \A j \in 1..(i - 1) :
       calls[j].req.nonce = calls[i].req.nonce =>
         /\ calls[i].resp.status = 400
         /\ calls[i].resp.error = "Invalid nonce"

(***************************************************************************)
(* C23  Legacy origin binding.  A request to POST /api/verify whose origin *)
(* differs from the origin registered for its merchant is answered 400,    *)
(* verified false, error 'Origin mismatch', whatever its signature is.     *)
(***************************************************************************)
C23_OriginBinding ==
  \A i \in Answered :
    LET req == calls[i].req
        expected == expectedOrigin(merchantsCache, req.merchant_id)
    IN expected # "" /\ req.origin # expected =>
         /\ calls[i].resp.status = 400
         /\ calls[i].resp.verified = "false"
         /\ calls[i].resp.error = "Origin mismatch"

(***************************************************************************)
(* C24  Legacy SDK verifyPayment.  At most one verification of an instance *)
(* is in progress at a time, and every verifyPayment call made while       *)
(* another one is in progress rejects with 'Verification already in        *)
(* progress'.                                                              *)
(***************************************************************************)
C24_OneAtATime ==
  /\ Cardinality(PaymentsRunning) <= 1
  /\ \A f \in DOMAIN sdk.payments :
       sdk.payments[f].busy =>
         /\ sdk.payments[f].pc = 0
         /\ sdk.payments[f].error = "Verification already in progress"

(***************************************************************************)
(* C25  No side effects on early rejection.  The step in which POST /nonce *)
(* is rejected with invalid_request, stale_ts, invalid_domain or           *)
(* unknown_merchant, or POST /verify is rejected at a gate before the      *)
(* proof-replay gate, changes no key and no counter of either store and    *)
(* sends no command to a store; the rejected call has issued no store      *)
(* operation.                                                              *)
(***************************************************************************)
EarlyReasons(ep) ==
  IF ep = "nonce"
  THEN {"invalid_request", "stale_ts", "invalid_domain", "unknown_merchant"}
  ELSE {"payload_too_large", "missing_fields", "stale_ts", "invalid_domain",
        "unknown_merchant", "merchant_mismatch", "domain_mismatch",
        "origin_mismatch", "referer_mismatch", "invalid_referer",
        "forwarded_host_mismatch", "fetch_metadata_violation",
        "dns_attestation_failed", "intent_mismatch", "visual_nonce_mismatch",
        "visual_nonce_hash_mismatch", "visual_nonce_signature_invalid"}

EarlyRejected(call) ==
  Done(call) /\ call.resp.verified # "true" /\ call.resp.sig = NoEnc
    /\ call.resp.reason \in EarlyReasons(call.req.ep)

C25_NoSideEffects ==
  [][\A i \in DOMAIN calls' :
       (EarlyRejected(calls'[i]) /\ (i \in DOMAIN calls => ~Done(calls[i]))) =>
         /\ calls'[i].ops = <<>>
         /\ UNCHANGED <<memoryCache, timers, redisKeys, redisQueue>>]_vars

\* an early rejection of each endpoint, answered while keys are held
C25_Witness ==
  /\ \E i \in NonceCalls : EarlyRejected(calls[i])
  /\ \E i \in VerifyCalls : EarlyRejected(calls[i])
  /\ DOMAIN memoryCache \cup DOMAIN redisKeys # {}

(***************************************************************************)
(* C27  Origin inference.  When the merchantId of a request resolves to no *)
(* merchant, its origin resolves to a merchant only if scheme and host     *)
(* together are one of that merchant's allowed origins; a /verify whose    *)
(* domain is in no allowed origin of the merchant it resolves to is turned *)
(* down at the domain gate at the latest.                                  *)
(***************************************************************************)
C27_OriginInference ==
  \A i \in Answered :
    LET req == calls[i].req
        url == ParseUrl(req.domain)
        origin == IF req.ep = "verify" /\ req.hOrigin # "" THEN req.hOrigin
                  ELSE OriginOf(url)
        inferred == inferMerchantByOrigin(merchantsCache, origin)
    IN /\ (/\ url.ok
           /\ getMerchantById(merchantsCache, req.merchantId) = NoMerchant
           /\ inferred # NoMerchant)
          => normaliseOrigin(origin) \in inferred.allowedOrigins
       /\ (/\ req.ep = "verify"
           /\ url.ok
           /\ Resolved(i) # NoMerchant
           /\ OriginOf(url) \notin Resolved(i).allowedOrigins)
          => calls[i].resp.reason \in
               {"payload_too_large", "missing_fields", "stale_ts", "invalid_domain",
                "unknown_merchant", "merchant_mismatch", "domain_mismatch"}

(***************************************************************************)
(* C28  DNS attestation.  For a merchant that requires DNS attestation,    *)
(* whatever its attestation set, a /verify whose domain is not in the set  *)
(* is never verified, and is answered dns_attestation_failed when it       *)
(* passes the gates before the attestation gate.                           *)
(***************************************************************************)
C28_DnsAttestation ==
  \A i \in VerifyCalls \cap Answered :
    LET url == ParseUrl(calls[i].req.domain)
        merchant == Resolved(i)
    IN (/\ url.ok
        /\ merchant # NoMerchant
        /\ merchant.riskRules.requireDnsAttestation
        /\ {url.host, OriginOf(url)} \cap merchant.dnsTxt = {})
       => /\ calls[i].resp.verified # "true"
          /\ \/ calls[i].resp.reason = "dns_attestation_failed"
             \/ calls[i].resp.reason \in
                  EarlyReasons("verify") \ {"intent_mismatch", "visual_nonce_mismatch",
                     "visual_nonce_hash_mismatch", "visual_nonce_signature_invalid"}

(***************************************************************************)
(* C26  TTL lifecycle of a replay key.  While less than ttlSeconds have    *)
(* passed since a successful setOnce of a key, every other setOnce of the  *)
(* key returns false; once more than ttlSeconds have passed, and no later  *)
(* claim holds the key, setOnce of the key returns true again; and a key   *)
(* leaves a store only when its expiry time has been reached.              *)
(***************************************************************************)
Expiry(op) == op.at + op.ttl * 1000

\* a successful claim of the key of op b that is still running when b is applied
HeldAt(b) ==
  \E c \in SetOnceOps :
    /\ c # b
    /\ OpAt(c).key = OpAt(b).key
    /\ OpAt(c).res = "true"
    /\ OpAt(c).at <= OpAt(b).at /\ OpAt(b).at <= Expiry(OpAt(c))

TtlRespected ==
  \A a, b \in SetOnceOps :
    (a # b /\ OpAt(a).key = OpAt(b).key /\ OpAt(a).res = "true"
       /\ OpAt(a).at <= OpAt(b).at) =>
      /\ OpAt(b).at < Expiry(OpAt(a)) => OpAt(b).res = "false"
      /\ (OpAt(b).at > Expiry(OpAt(a)) /\ ~HeldAt(b)) => OpAt(b).res = "true"

C26_TtlLifecycle ==
  [][/\ TtlRespected'
     /\ \A k \in DOMAIN redisKeys \ DOMAIN redisKeys' : redisKeys[k].exp <= now'
     /\ \A k \in DOMAIN memoryCache \ DOMAIN memoryCache' :
          /\ memoryCache[k].expires <= now
          /\ \E x \in SetOnceOps : OpAt(x).key = k /\ OpAt(x).res = "true"]_vars

\* a key is claimed, refused while it is held, and claimed again after its TTL
C26_Witness ==
  \E a, b, c \in SetOnceOps :
    /\ OpAt(a).key = OpAt(b).key /\ OpAt(a).key = OpAt(c).key
    /\ OpAt(a).res = "true" /\ OpAt(c).res = "false" /\ OpAt(b).res = "true"
    /\ OpAt(a).at <= OpAt(c).at /\ OpAt(c).at < Expiry(OpAt(a))
    /\ OpAt(b).at > Expiry(OpAt(a))

(***************************************************************************)
(* C29  Consent before every fall-through.  When a consent callback is     *)
(* configured, a flow that opens the code prompt has invoked the callback  *)
(* after its WebAuthn failure and before the prompt, and a flow that       *)
(* attempts a device proof has invoked the callback after its OTP failure  *)
(* and before the attempt.                                                 *)
(***************************************************************************)
ConsentBetween(f, j, k) ==
  \E c \in DOMAIN sdk.flows[f].trace :
    j < c /\ c < k /\ sdk.flows[f].trace[c] = Did("consent", "start")

ConsentBefore(f, next, failed) ==
  \A k \in At(f, next, "start") :
    \E j \in DOMAIN sdk.flows[f].trace :
      /\ j < k
      /\ sdk.flows[f].trace[j].e = failed
      /\ sdk.flows[f].trace[j].x \notin {"start", "succeeded"}
      /\ ConsentBetween(f, j, k)

C29_ConsentEachStep ==
  sdk.onConsent =>
    \A f \in Flows : ConsentBefore(f, "otp", "webauthn") /\ ConsentBefore(f, "device", "otp")

(***************************************************************************)
(* C30  Nonce verification reason codes.  A /verify that passes every gate *)
(* before the nonce checks is answered by the first of its three fields    *)
(* that does not match: visual_nonce_mismatch for the provided nonce, then *)
(* visual_nonce_hash_mismatch for the nonce hash, then                     *)
(* visual_nonce_signature_invalid for the signature; the three codes are   *)
(* given for nothing else.                                                 *)
(***************************************************************************)
NonceReasons ==
  <<"visual_nonce_mismatch", "visual_nonce_hash_mismatch",
    "visual_nonce_signature_invalid">>

\* the nonce the server derives for the request of call i
ExpectedNonce(i) ==
  LET req == calls[i].req
  IN computeVisualNonceBytes(req.merchantId, OriginOf(ParseUrl(req.domain)),
                             ToNumber(req.ts), req.intentHash)

\* the fields of call i that do not match, as positions of NonceReasons
NonceMismatches(i) ==
  LET req == calls[i].req
  IN {k \in DOMAIN NonceReasons :
        \/ k = 1 /\ fromBase64Url(req.visualNonce) # ExpectedNonce(i)
        \/ k = 2 /\ req.visualNonceHash # toBase64Url(sha256(ExpectedNonce(i)))
        \/ k = 3 /\ fromBase64Url(req.visualNonceSig)
                      # Sign(Resolved(i).keyId, ExpectedNonce(i))}

C30_NonceReasons ==
  \A i \in VerifyCalls \cap Answered :
    LET code == calls[i].resp.reason
        named == \E k \in DOMAIN NonceReasons : NonceReasons[k] = code
    IN /\ PassesBefore(i, "nonce") =>
            IF NonceMismatches(i) = {} THEN ~named
            ELSE RejectedWith(i, NonceReasons[FirstIndex(NonceMismatches(i))])
       /\ named => PassesBefore(i, "nonce") /\ NonceMismatches(i) # {}

\* a request whose hash and signature both fail was answered for the hash
C30_Witness ==
  \E i \in VerifyCalls \cap Answered :
    /\ PassesBefore(i, "nonce")
    /\ NonceMismatches(i) = {2, 3}
    /\ RejectedWith(i, "visual_nonce_hash_mismatch")

(***************************************************************************)
(* C31  One-time-code gate.  A /verify with method otp that passes the     *)
(* velocity gate increments the minute counter and the hour counter of its *)
(* merchant before it is answered; it is verified exactly when it is at    *)
(* most the fifth such request of its minute and the tenth of its hour and *)
(* its code is the merchant's code of the current 30 s step or of the step *)
(* before or after; otherwise it is answered otp_invalid_or_rate_limited.  *)
(***************************************************************************)
\* the otp requests that passed the velocity gate
AtOtpGate ==
  {i \in VerifyCalls \cap Answered :
     calls[i].req.method = "otp" /\ StoreResult(i, 2) = "true"}

\* the requests up to i counted under the same key as the k-th operation of i
CountedWith(i, k) ==
  {j \in AtOtpGate : j <= i /\ Len(calls[j].ops) >= k
                     /\ calls[j].ops[k].key = calls[i].ops[k].key}

CodeInWindow(i) ==
  LET merchant == getMerchantById(merchantsCache, calls[i].m)
      step == (calls[i].at \div 1000) \div 30
  IN /\ merchant.otpSecretHex # ""
     /\ calls[i].req.otpCode \in {Totp(merchant.otpSecretHex, step + d) : d \in -1..1}

C31_OtpGate ==
  \A i \in AtOtpGate :
    /\ Len(calls[i].ops) = 4
    /\ calls[i].ops[3].fn = "rateLimit" /\ calls[i].ops[3].res # "pending"
    /\ calls[i].ops[4].fn = "rateLimit" /\ calls[i].ops[4].res # "pending"
    /\ calls[i].ops[3].key # calls[i].ops[4].key
    /\ IF /\ Cardinality(CountedWith(i, 3)) <= 5
          /\ Cardinality(CountedWith(i, 4)) <= 10
          /\ CodeInWindow(i)
       THEN VerifiedTrue(i)
       ELSE RejectedWith(i, "otp_invalid_or_rate_limited")

\* the eleventh code of the hour, the first of its minute and the right one,
\* was turned down
C31_Witness ==
  \E i \in AtOtpGate :
    /\ Cardinality(CountedWith(i, 3)) = 1
    /\ Cardinality(CountedWith(i, 4)) = 11
    /\ CodeInWindow(i)
    /\ RejectedWith(i, "otp_invalid_or_rate_limited")

(***************************************************************************)
(* C32  The platform-authenticator verifier accepts an assertion only if   *)
(* its client data has type webauthn.get, its origin is the validated      *)
(* domain, its challenge is the digest of (merchantId, domain, ts,         *)
(* intentHash, visualNonceHash), the RP-ID hash of its authenticator data  *)
(* is the digest of the expected RP ID, and the user-present and           *)
(* user-verified flags are both set; the checks run in that order and the  *)
(* first one that fails gives the reason of the rejection.                 *)
(***************************************************************************)
AtWebAuthnGate ==
  {i \in VerifyCalls \cap Answered :
     calls[i].req.method = "webauthn" /\ StoreResult(i, 2) = "true"}

\* the checks on the assertion of call i, in the order claimed
WebAuthnChecks(i) ==
  LET req == calls[i].req
      a == req.webauthn
      url == ParseUrl(req.domain)
      challenge == sha256(req.merchantId \o "|" \o OriginOf(url) \o "|"
                          \o Template(ToNumber(req.ts)) \o "|" \o EncText(req.intentHash)
                          \o "|" \o EncText(req.visualNonceHash))
      expectedRpId == IF req.rpId # "" THEN req.rpId ELSE url.host
  IN << [reason |-> "webauthn_payload_missing", ok |-> a.present],
        [reason |-> "webauthn_fields_missing", ok |-> a.complete],
        [reason |-> "webauthn_validation_error", ok |-> a.clientData.parses],
        [reason |-> "webauthn_type_invalid", ok |-> a.clientData.type = "webauthn.get"],
        [reason |-> "webauthn_origin_mismatch", ok |-> a.clientData.origin = OriginOf(url)],
        [reason |-> "webauthn_challenge_mismatch",
         ok |-> a.clientData.challenge = toBase64Url(challenge)],
        [reason |-> "webauthn_rpid_mismatch", ok |-> a.authData.rpIdHash = sha256(expectedRpId)],
        [reason |-> "webauthn_flags_invalid",
         ok |-> "UP" \in a.authData.flags /\ "UV" \in a.authData.flags] >>

FailedChecks(checks) == {k \in DOMAIN checks : ~checks[k].ok}

FirstFailed(checks) ==
  CHOOSE k \in FailedChecks(checks) : \A other \in FailedChecks(checks) : k <= other

C32_WebAuthnChecks ==
  \A i \in AtWebAuthnGate :
    LET checks == WebAuthnChecks(i)
    IN IF FailedChecks(checks) = {}
       THEN VerifiedTrue(i)
       ELSE RejectedWith(i, checks[FirstFailed(checks)].reason)

\* an assertion for another page, with a wrong challenge and without the
\* user-verified flag, was turned down for its origin
C32_Witness ==
  \E i \in AtWebAuthnGate :
    /\ FailedChecks(WebAuthnChecks(i)) = {5, 6, 8}
    /\ RejectedWith(i, "webauthn_origin_mismatch")

(***************************************************************************)
(* C33  The device-proof verifier accepts a proof exactly when the claimed *)
(* device hash is the hash recomputed from the request's client hints and  *)
(* the intent hash and, for a merchant with a session secret, the claimed  *)
(* proof is present and is the HMAC of the device hash under that secret;  *)
(* otherwise it answers device_payload_missing, device_hash_mismatch,      *)
(* device_proof_missing or device_proof_invalid, whichever check fails     *)
(* first in that order.                                                    *)
(***************************************************************************)
AtDeviceGate ==
  {i \in VerifyCalls \cap Answered :
     calls[i].req.method = "device" /\ StoreResult(i, 2) = "true"}

\* the checks on the device proof of call i, in the order claimed
DeviceChecks(i) ==
  LET req == calls[i].req
      secret == getMerchantById(merchantsCache, calls[i].m).sessionSecret
      language == IF req.uaHints.language # "" THEN req.uaHints.language
                  ELSE req.hAcceptLanguage
      hash == sha256(req.hUserAgent \o "|" \o language \o "|" \o req.uaHints.platform
                     \o "|" \o req.uaHints.screen \o "|" \o EncText(req.intentHash))
  IN << [reason |-> "device_payload_missing", ok |-> req.device.present],
        [reason |-> "device_hash_mismatch", ok |-> req.device.deviceHash = toBase64Url(hash)],
        [reason |-> "device_proof_missing",
         ok |-> secret = "" \/ Present(req.device.proof)],
        [reason |-> "device_proof_invalid",
         ok |-> \/ secret = ""
                \/ req.device.proof
                     = toBase64Url(hmacSha256(secret, EncText(req.device.deviceHash)))] >>

C33_DeviceChecks ==
  \A i \in AtDeviceGate :
    LET checks == DeviceChecks(i)
    IN IF FailedChecks(checks) = {}
       THEN VerifiedTrue(i)
       ELSE RejectedWith(i, checks[FirstFailed(checks)].reason)

\* a wrong hash without a proof, at a merchant with a session secret, was
\* turned down for the hash
C33_Witness ==
  \E i \in AtDeviceGate :
    /\ FailedChecks(DeviceChecks(i)) = {2, 3, 4}
    /\ RejectedWith(i, "device_hash_mismatch")

(***************************************************************************)
(* C34  The in-flight guard is always released.  A flow that has set       *)
(* verificationInProgress resets it when it completes, by return or by     *)
(* throw, also when the nonce derivation or the request to /nonce fails:   *)
(* whenever no flow is active the guard is free, so that no invocation     *)
(* made then is answered `verification_in_progress`.                       *)
(***************************************************************************)
C34_GuardReleased ==
  ActiveFlows = {} => ~sdk.verificationInProgress

\* a flow refused although the only flow that had entered had already thrown
C34_LockedOut ==
  \E f, g \in Flows :
    /\ sdk.flows[g].result.kind = "thrown"
    /\ sdk.flows[g].trace = <<Did("nonce", "derived"), Did("POST /nonce", "")>>
    /\ ActiveFlows = {}
    /\ sdk.verificationInProgress
    /\ sdk.flows[f].result = Returned(FALSE, "verification_in_progress", "")

(***************************************************************************)
(* C35  A nonce is consumed whatever the verdict.  After a POST /verify    *)
(* request has claimed the proof-replay key (it passed the nonce, hash and *)
(* signature gates), every other request for the same (merchant,           *)
(* visualNonceHash) that reaches the claim within the replay TTL is        *)
(* answered `replay`, whether the first request was verified or ended in   *)
(* policy_requires_webauthn, velocity_exceeded,                            *)
(* otp_invalid_or_rate_limited, a webauthn_* or device_* reason or         *)
(* unsupported_method.                                                     *)
(***************************************************************************)
C35_NonceConsumed ==
  \A i, j \in VerifyCalls \cap Answered :
    ( /\ i # j
      /\ SameProof(i, j)
      /\ Claimed(i) /\ Claiming(j)
      /\ WithinTtl(calls[i].ops[1], calls[j].ops[1]) )
    => RejectedWith(j, "replay")

\* a proof turned down for the velocity limit was submitted again later,
\* with a sound assertion, and was answered as a replay
C35_Witness ==
  \E i, j \in VerifyCalls \cap Answered :
    /\ i < j /\ SameProof(i, j)
    /\ RejectedWith(i, "velocity_exceeded")
    /\ calls[j].at > calls[i].at
    /\ calls[j].req = VerifyRequest(CHOOSE n \in Issued : j \in ProofsOf(n),
                                    "webauthn", calls[j].at)
    /\ RejectedWith(j, "replay")

(***************************************************************************)
(* C36  No positive verdict without issuance.  With signatures made only   *)
(* by POST /nonce, every verified:true response of POST /verify is         *)
(* preceded by an issuance of POST /nonce by the same resolved merchant    *)
(* for the same merchantId component, domain origin, ts and intentHash;    *)
(* and a request that carries the signature issued for one merchant and    *)
(* resolves to another merchant is not verified.                           *)
(***************************************************************************)
\* the issuances before call i made by its merchant for its nonce inputs
IssuedFor(i) ==
  {n \in Issued :
     /\ n < i
     /\ calls[n].m = calls[i].m
     /\ calls[n].req.merchantId = calls[i].req.merchantId
     /\ OriginOf(ParseUrl(calls[n].req.domain)) = OriginOf(ParseUrl(calls[i].req.domain))
     /\ ToNumber(calls[n].req.ts) = ToNumber(calls[i].req.ts)
     /\ calls[n].req.intentHash = calls[i].req.intentHash}

\* the issuances whose signature call i carries although it resolves to
\* another merchant
BorrowedFrom(i) ==
  {n \in Issued : /\ calls[i].req.visualNonceSig = calls[n].resp.sig
                  /\ Resolved(i).merchantId # calls[n].m}

C36_IssuedBefore ==
  \A i \in VerifyCalls \cap Answered :
    /\ VerifiedTrue(i) => IssuedFor(i) # {}
    /\ BorrowedFrom(i) # {} => ~VerifiedTrue(i)

\* a submission sound for its own merchant carried the signature issued to
\* another one and was turned down at the signature gate
C36_Witness ==
  \E i \in VerifyCalls \cap Answered :
    /\ BorrowedFrom(i) # {}
    /\ RejectedWith(i, "visual_nonce_signature_invalid")

(***************************************************************************)
(* C37  POST /nonce signs only for registered domains: a signature is      *)
(* returned only when the origin or the host parsed from `domain` is among *)
(* the allowed origins or the allowed hosts of the resolved merchant,      *)
(* whether the merchant was resolved by merchantId, by origin or by host.  *)
(***************************************************************************)
C37_RegisteredDomains ==
  \A n \in Issued :
    LET merchant == getMerchantById(merchantsCache, calls[n].m)
        url == ParseUrl(calls[n].req.domain)
    IN \/ OriginOf(url) \in merchant.allowedOrigins
       \/ url.host \in merchant.allowedHosts

(***************************************************************************)
(* C38  The payload the SDK sends to /verify is well formed: its method is *)
(* webauthn, otp or device; the proof fields of the other two methods are  *)
(* null; and its consent is 'enabled' exactly when the method is webauthn  *)
(* and 'fallback' otherwise.                                               *)
(***************************************************************************)
C38_PayloadShape ==
  \A f \in Flows :
    Ever(f, "POST /verify") =>
      LET payload == sdk.flows[f].payload
      IN /\ payload.method \in {"webauthn", "otp", "device"}
         /\ payload.method # "webauthn" => payload.webauthn = "null"
         /\ payload.method # "otp" => payload.otp = "null"
         /\ payload.method # "device" => payload.device = "null"
         /\ payload.consent = (IF payload.method = "webauthn" THEN "enabled"
                               ELSE "fallback")

\* a device proof was sent after the platform authenticator and the code
\* prompt had failed
C38_Witness ==
  \E f \in Flows :
    /\ At(f, "POST /verify", "device") # {}
    /\ At(f, "otp", "failed") # {}
    /\ sdk.flows[f].payload.device = "proof"
    /\ sdk.flows[f].payload.consent = "fallback"

(***************************************************************************)
(* C39  The strongest factor is enforced when requested.  A flow for which *)
(* requireStrongestFactor is set, by the call or by the instance default,  *)
(* and whose WebAuthn attempt failed has returned {verified: false} with   *)
(* the WebAuthn error as its reason; it has invoked no consent callback,   *)
(* opened no code prompt, attempted no device proof and sent nothing to    *)
(* /verify.                                                                *)
(***************************************************************************)
C39_StrongestEnforced ==
  \A f \in Flows :
    ( /\ sdk.flows[f].requireStrongestFactor \/ sdk.requireStrongestDefault
      /\ At(f, "webauthn", "failed") # {} )
    => /\ sdk.flows[f].result.kind = "returned"
       /\ ~sdk.flows[f].result.verified
       /\ sdk.flows[f].result.reason \in {"webauthn_unavailable", "user_cancelled"}
       /\ sdk.flows[f].result.reason = sdk.flows[f].webauthnError
       /\ ~Ever(f, "consent") /\ ~Ever(f, "otp") /\ ~Ever(f, "device")
       /\ ~Ever(f, "POST /verify")

\* the strongest factor was required by the instance default only, on an SDK
\* with a consent callback, and the flow ended at the failed WebAuthn attempt
C39_Witness ==
  \E f \in Flows :
    /\ sdk.requireStrongestDefault /\ ~sdk.flows[f].requireStrongestFactor
    /\ sdk.onConsent
    /\ At(f, "webauthn", "failed") # {}
    /\ sdk.flows[f].result = Returned(FALSE, "user_cancelled", "")
    /\ ~sdk.verificationInProgress

====
